---- MODULE Spec2Model ----
(***************************************************************************)
(* Market-data subsystem of FinGuide-AI: the two-tier TTL cache            *)
(* (cache_manager.py), the payload merge of the normalizer                 *)
(* (data_normalizer.py) and the source-priority orchestrator               *)
(* (data_sources.py).                                                      *)
(*                                                                         *)
(* Python values are modelled as follows.  A dict is a function from its   *)
(* keys to its values; scalar values inside payloads are tagged records    *)
(* (PyInt, PyStr, PyNoneVal) so that values of different Python types can  *)
(* be compared; the Python object None returned by an operation is PyNone. *)
(* md5 is taken to be collision free: a cache key is the list of parts     *)
(* that _get_cache_key joins and hashes.                                   *)
(***************************************************************************)
EXTENDS Integers, Sequences, FiniteSets, TLC

VARIABLES
    now,            \* datetime.now(), in seconds
    memory_cache,   \* CacheManager.memory_cache: cache key -> cache entry
    disk,           \* cache_dir/*.json: cache key -> file content
    last,           \* the last completed CacheManager call and what it returned
    nset,           \* number of direct CacheManager.set calls made so far
    enable_cache,   \* IndianMarketDataAPI.cache_manager is not None
    nreq,           \* number of orchestrator requests started so far
    req,            \* the orchestrator requests, in flight or returned
    call,           \* a call of a function that has no state: its arguments and result
    nse             \* NSEClient: its session and the calls in flight on it

vars == <<now, memory_cache, disk, last, nset, enable_cache, nreq, req, call, nse>>

----------------------------------------------------------------------------
(* Bounds *)

MaxSets == 2
MaxReq == 2

\* the instants (seconds) at which the clock is read
Instants == {0, 60, 540, 600}

----------------------------------------------------------------------------
(* Python values *)

PyNone == [py_none |-> TRUE]
PyInt(n) == [t |-> "int", v |-> n]
PyStr(s) == [t |-> "str", v |-> s]
PyNoneVal == [t |-> "none"]

EmptyDict == [k \in {} |-> PyNoneVal]

\* d with key k removed (del d[k])
DictDel(d, k) == [x \in (DOMAIN d) \ {k} |-> d[x]]

\* d with d[k] = v
DictPut(d, k, v) == [x \in (DOMAIN d) \cup {k} |-> IF x = k THEN v ELSE d[x]]

\* bool(x) for a dict or None
Truthy(x) == x # PyNone /\ DOMAIN x # {}

----------------------------------------------------------------------------
(* Python strings that the code takes apart are sequences of characters *)

RELIANCE == <<"R", "E", "L", "I", "A", "N", "C", "E">>
TCS == <<"T", "C", "S">>
reliance == <<"r", "e", "l", "i", "a", "n", "c", "e">>
RELIANCE_NS == <<"R", "E", "L", "I", "A", "N", "C", "E", ".", "N", "S">>
ALL_INDICES == <<"A", "L", "L", "_", "I", "N", "D", "I", "C", "E", "S">>
NIFTY == <<"N", "I", "F", "T", "Y">>
NIFTY50 == <<"N", "I", "F", "T", "Y", "5", "0">>
NIFTY_50 == <<"N", "I", "F", "T", "Y", " ", "5", "0">>
NIFTY_50_KEY == <<"N", "I", "F", "T", "Y", "_", "5", "0">>
NSEI == <<"^", "N", "S", "E", "I">>
SENSEX == <<"S", "E", "N", "S", "E", "X">>
BSESN == <<"^", "B", "S", "E", "S", "N">>
BANKNIFTY == <<"B", "A", "N", "K", "N", "I", "F", "T", "Y">>
NIFTY_BANK == <<"N", "I", "F", "T", "Y", " ", "B", "A", "N", "K">>
NSEBANK == <<"^", "N", "S", "E", "B", "A", "N", "K">>

LowerLetters ==
    <<"a", "b", "c", "d", "e", "f", "g", "h", "i", "j", "k", "l", "m",
      "n", "o", "p", "q", "r", "s", "t", "u", "v", "w", "x", "y", "z">>
UpperLetters ==
    <<"A", "B", "C", "D", "E", "F", "G", "H", "I", "J", "K", "L", "M",
      "N", "O", "P", "Q", "R", "S", "T", "U", "V", "W", "X", "Y", "Z">>

UpperChar(c) ==
    IF \E i \in 1..26 : LowerLetters[i] = c
    THEN UpperLetters[CHOOSE i \in 1..26 : LowerLetters[i] = c]
    ELSE c

\* str.upper()
Upper(s) == [i \in 1..Len(s) |-> UpperChar(s[i])]

\* str.strip()
RECURSIVE Strip(_)
Strip(s) ==
    IF s = <<>> THEN s
    ELSE IF Head(s) = " " THEN Strip(Tail(s))
    ELSE IF s[Len(s)] = " " THEN Strip(SubSeq(s, 1, Len(s) - 1))
    ELSE s

\* str.endswith(suffix)
EndsWith(s, suffix) ==
    /\ Len(s) >= Len(suffix)
    /\ SubSeq(s, Len(s) - Len(suffix) + 1, Len(s)) = suffix

\* s[:-n]
DropLast(s, n) == SubSeq(s, 1, Len(s) - n)

----------------------------------------------------------------------------
(* DataNormalizer *)

PyFloat(n) == [t |-> "float", v |-> n]
PyBool(b) == [t |-> "bool", v |-> b]
PyTime(n) == [t |-> "time", v |-> n]

\* dict.get(key, default)
DictGet(d, key, default) == IF key \in DOMAIN d THEN d[key] ELSE default

\* bool(value) for a scalar value
ValueTruthy(value) ==
    CASE value.t = "none" -> FALSE
      [] value.t = "int" -> value.v # 0
      [] value.t = "float" -> value.v # 0
      [] value.t = "bool" -> value.v
      [] value.t = "str" -> value.v # <<>>
      [] OTHER -> TRUE

\* variant: no value counts as zero
EqualsZeroNever(value) == FALSE

\* value == 0
EqualsZero(value) ==
    \/ value.t \in {"int", "float"} /\ value.v = 0
    \/ value.t = "bool" /\ value.v = FALSE

symbol_mappings ==
    <<  <<NIFTY, NIFTY>>, <<NIFTY50, NIFTY>>, <<NSEI, NIFTY>>, <<NIFTY_50, NIFTY>>,
        <<SENSEX, SENSEX>>, <<BSESN, SENSEX>>,
        <<BANKNIFTY, BANKNIFTY>>, <<NIFTY_BANK, BANKNIFTY>>, <<NSEBANK, BANKNIFTY>> >>

\* DataNormalizer._normalize_symbol on a str
_normalize_symbol(symbol) ==
    IF symbol = <<>> THEN <<>>
    ELSE LET sym == Upper(Strip(symbol))
         IN  IF \E i \in DOMAIN symbol_mappings : symbol_mappings[i][1] = sym
             THEN symbol_mappings[CHOOSE i \in DOMAIN symbol_mappings :
                                      symbol_mappings[i][1] = sym][2]
             ELSE IF EndsWith(sym, <<".", "N", "S">>) THEN DropLast(sym, 3)
             ELSE IF EndsWith(sym, <<".", "N", "S", "E">>) THEN DropLast(sym, 4)
             ELSE IF EndsWith(sym, <<".", "B", "O">>) THEN DropLast(sym, 3)
             ELSE IF EndsWith(sym, <<".", "B", "S", "E">>) THEN DropLast(sym, 4)
             ELSE sym

\* the strings that float() parses, with their values (prices are modelled
\* as whole numbers)
NumericStrings == {"7"}
FloatOfString(str) == CASE str = "7" -> 7 [] OTHER -> 0

\* variant: None is passed through
_safe_float_keep_none(value) ==
    CASE value.t = "none" -> PyNoneVal
      [] value.t \in {"int", "float"} -> PyFloat(value.v)
      [] value.t = "bool" -> PyFloat(IF value.v THEN 1 ELSE 0)
      [] value.t = "str" ->
            IF value.v \in NumericStrings THEN PyFloat(FloatOfString(value.v))
            ELSE PyFloat(0)
      [] OTHER -> PyFloat(0)

\* DataNormalizer._safe_float
_safe_float(value) ==
    CASE value.t = "none" -> PyFloat(0)
      [] value.t \in {"int", "float"} -> PyFloat(value.v)
      [] value.t = "bool" -> PyFloat(IF value.v THEN 1 ELSE 0)
      [] value.t = "str" ->
            IF value.v \in NumericStrings THEN PyFloat(FloatOfString(value.v))
            ELSE PyFloat(0)
      [] OTHER -> PyFloat(0)

\* DataNormalizer._safe_int
_safe_int(value) ==
    CASE value.t = "none" -> PyInt(0)
      [] value.t \in {"int", "float"} -> PyInt(value.v)
      [] value.t = "bool" -> PyInt(IF value.v THEN 1 ELSE 0)
      [] value.t = "str" ->
            IF value.v \in NumericStrings THEN PyInt(FloatOfString(value.v))
            ELSE PyInt(0)
      [] OTHER -> PyInt(0)

PriceKeys ==
    { "symbol", "price", "change", "change_percent", "open", "high", "low",
      "volume", "timestamp", "market_state", "previous_close", "market_cap",
      "pe_ratio", "source" }

\* _normalize_symbol(raw_data.get("symbol", "")) raises on a truthy value
\* that is not a str
SymbolRaises(raw_data) ==
    LET symbol == DictGet(raw_data, "symbol", PyStr(<<>>))
    IN  ValueTruthy(symbol) /\ symbol.t # "str"

\* an int too large for a float: float(value) raises OverflowError, which
\* _safe_float and _safe_int do not catch
PyBigInt == [t |-> "bigint"]

\* a numeric field of raw_data makes _safe_float or _safe_int raise
OverflowRaises(raw_data) ==
    \E k \in (DOMAIN raw_data) \cap
               { "price", "change", "change_percent", "open", "high", "low", "volume",
                 "previous_close", "market_cap", "pe_ratio" } :
        raw_data[k] = PyBigInt

NormalizedSymbol(raw_data) ==
    LET symbol == DictGet(raw_data, "symbol", PyStr(<<>>))
    IN  IF ValueTruthy(symbol) THEN _normalize_symbol(symbol.v) ELSE <<>>

\* DataNormalizer.normalize_price_data: a NormalizedPrice, or None
normalize_price_data(raw_data) ==
    IF "error" \in DOMAIN raw_data THEN PyNone
    ELSE IF SymbolRaises(raw_data) \/ OverflowRaises(raw_data)
    THEN PyNone    \* the except of normalize_price_data returns None
    ELSE LET additional_data == [k \in (DOMAIN raw_data) \ PriceKeys |-> raw_data[k]]
         IN [ symbol |-> NormalizedSymbol(raw_data),
              price |-> _safe_float(DictGet(raw_data, "price", PyInt(0))),
              change |-> _safe_float(DictGet(raw_data, "change", PyInt(0))),
              change_percent |-> _safe_float(DictGet(raw_data, "change_percent", PyInt(0))),
              open |-> _safe_float(DictGet(raw_data, "open", PyInt(0))),
              high |-> _safe_float(DictGet(raw_data, "high", PyInt(0))),
              low |-> _safe_float(DictGet(raw_data, "low", PyInt(0))),
              volume |-> _safe_int(DictGet(raw_data, "volume", PyInt(0))),
              timestamp |-> DictGet(raw_data, "timestamp", PyTime(now)),
              source |-> DictGet(raw_data, "source", PyStr("unknown")),
              market_state |-> DictGet(raw_data, "market_state", PyStr("unknown")),
              previous_close |-> _safe_float(DictGet(raw_data, "previous_close", PyNoneVal)),
              market_cap |-> _safe_float(DictGet(raw_data, "market_cap", PyNoneVal)),
              pe_ratio |-> _safe_float(DictGet(raw_data, "pe_ratio", PyNoneVal)),
              additional_data |-> IF DOMAIN additional_data # {} THEN additional_data
                                  ELSE PyNone ]

\* variant: the merged payload is returned without the provenance keys
merge_data_sources_unstamped(primary_data, fallback_data) ==
    IF ~Truthy(primary_data) \/ "error" \in DOMAIN primary_data THEN fallback_data
    ELSE IF ~Truthy(fallback_data) \/ "error" \in DOMAIN fallback_data THEN primary_data
    ELSE [k \in (DOMAIN primary_data) \cup (DOMAIN fallback_data) |->
             IF k \notin DOMAIN fallback_data THEN primary_data[k]
             ELSE IF k \notin DOMAIN primary_data THEN fallback_data[k]
             ELSE IF primary_data[k].t = "none" \/ EqualsZero(primary_data[k])
             THEN fallback_data[k]
             ELSE primary_data[k]]

\* DataNormalizer.merge_data_sources
merge_data_sources(primary_data, fallback_data) ==
    IF ~Truthy(primary_data) \/ "error" \in DOMAIN primary_data THEN fallback_data
    ELSE IF ~Truthy(fallback_data) \/ "error" \in DOMAIN fallback_data THEN primary_data
    ELSE LET filled ==
                 [k \in (DOMAIN primary_data) \cup (DOMAIN fallback_data) |->
                     IF k \notin DOMAIN fallback_data THEN primary_data[k]
                     ELSE IF k \notin DOMAIN primary_data THEN fallback_data[k]
                     ELSE IF primary_data[k].t = "none" \/ EqualsZero(primary_data[k])
                     THEN fallback_data[k]
                     ELSE primary_data[k]]
             stamps ==
                 [ primary_source |-> DictGet(primary_data, "source", PyStr("unknown")),
                   fallback_source |-> DictGet(fallback_data, "source", PyStr("unknown")),
                   merged |-> PyBool(TRUE) ]
         IN [k \in (DOMAIN filled) \cup (DOMAIN stamps) |->
                IF k \in DOMAIN stamps THEN stamps[k] ELSE filled[k]]

----------------------------------------------------------------------------
(* Inputs *)

NoArg == "None"                     \* cache_type left at its default None
NoSymbol == <<"None">>              \* symbol left at its default None
NoKwargs == [k \in {} |-> ""]       \* no extra keyword arguments


\* the payloads the cache is asked to store
PayloadA == [price |-> PyInt(5), source |-> PyStr("nse")]
PayloadB == [price |-> PyInt(9), source |-> PyStr("yahoo_finance")]
Payloads == {PayloadA, PayloadB}

\* the (cache_type, symbol, kwargs) triples the cache is called with;
\* "custom" stands for any category that ttl_settings does not list
CacheArgs ==
    { <<"real_time", RELIANCE, NoKwargs>>,
      <<"real_time", TCS, NoKwargs>>,
      <<"custom", RELIANCE, NoKwargs>> }

----------------------------------------------------------------------------
(* CacheManager *)

ttl_default == 600

ttl_settings ==
    [ real_time |-> 60,
      indices |-> 30,
      historical_1d |-> 3600,
      historical_intraday |-> 300,
      company_info |-> 86400,
      gainers_losers |-> 300,
      fii_dii |-> 3600,
      default |-> ttl_default ]

\* self.ttl_settings.get(cache_type, self.ttl_settings["default"])
TtlOf(cache_type) ==
    IF cache_type \in DOMAIN ttl_settings THEN ttl_settings[cache_type]
    ELSE ttl_settings["default"]

\* the keyword names the callers use, in sorted() order
KwNames == <<"count", "interval", "period">>

InKw(kwargs) == [n \in {"count", "interval", "period"} |-> n \in DOMAIN kwargs]

\* sorted(kwargs.items())
SortedItems(kwargs) ==
    LET present(n) == InKw(kwargs)[n]
        names == SelectSeq(KwNames, present)
    IN [i \in 1..Len(names) |-> <<names[i], kwargs[names[i]]>>]

\* key_parts of _get_cache_key; the md5 of their join is taken as injective
_get_cache_key(prefix, symbol, kwargs) ==
    <<prefix, symbol>> \o SortedItems(kwargs)

\* the content json.dump leaves in the file when it completes
JsonDump(entry) == [ok |-> TRUE, doc |-> entry]

\* the content left by a write that failed after open(cache_file, 'w')
Truncated == [ok |-> FALSE]

\* json.load succeeds
Parses(file) == file.ok

\* variant: the expiry instant itself still counts as valid
_is_cache_valid_inclusive(cache_data, cache_type) ==
    now <= cache_data.cached_at + TtlOf(cache_type)

\* datetime.now() < cached_at + timedelta(seconds=ttl)
_is_cache_valid(cache_data, cache_type) ==
    now < cache_data.cached_at + TtlOf(cache_type)

\* the cache_entry dict that set builds
CacheEntry(cache_type, symbol, kwargs, data) ==
    [ cached_at |-> now,
      cache_type |-> cache_type,
      symbol |-> symbol,
      kwargs |-> kwargs,
      data |-> data ]

\* no entry in a tier for a key
Absent == [absent |-> TRUE]

\* what each tier holds for a key
MemEntry(key) == IF key \in DOMAIN memory_cache THEN memory_cache[key] ELSE Absent
DiskFile(key) == IF key \in DOMAIN disk THEN disk[key] ELSE Absent

NoCall ==
    [ op |-> "none", cache_type |-> NoArg, symbol |-> NoSymbol, kwargs |-> NoKwargs,
      key |-> <<>>, data |-> PyNone, ret |-> PyNone, ok |-> FALSE, count |-> 0,
      at |-> 0, preMem |-> Absent, preDisk |-> Absent, follows |-> Absent ]

\* the set call that a call on this key comes right after, if any
FollowsSet(key) ==
    IF last.op = "set" /\ last.key = key
    THEN [data |-> last.data, at |-> last.at, ok |-> last.ok]
    ELSE Absent

\* variant: get returns the whole cache entry instead of its payload
GetResultWholeEntry(cache_type, symbol, kwargs) ==
    LET key == _get_cache_key(cache_type, symbol, kwargs)
        memHit == key \in DOMAIN memory_cache
                  /\ _is_cache_valid(memory_cache[key], cache_type)
        mem1 == IF key \in DOMAIN memory_cache THEN DictDel(memory_cache, key)
                ELSE memory_cache
    IN  IF memHit
        THEN [mem |-> memory_cache, disk |-> disk, ret |-> memory_cache[key],
              error |-> "none"]
        ELSE IF key \notin DOMAIN disk
        THEN [mem |-> mem1, disk |-> disk, ret |-> PyNone, error |-> "none"]
        ELSE IF ~Parses(disk[key])
        THEN [mem |-> mem1, disk |-> disk, ret |-> PyNone, error |-> "caught"]
        ELSE IF _is_cache_valid(disk[key].doc, cache_type)
        THEN [mem |-> DictPut(mem1, key, disk[key].doc), disk |-> disk,
              ret |-> disk[key].doc, error |-> "none"]
        ELSE [mem |-> mem1, disk |-> DictDel(disk, key), ret |-> PyNone,
              error |-> "none"]

\* variant: an expired file is reported as a miss but not unlinked
GetResultNoUnlink(cache_type, symbol, kwargs) ==
    LET key == _get_cache_key(cache_type, symbol, kwargs)
        memHit == key \in DOMAIN memory_cache
                  /\ _is_cache_valid(memory_cache[key], cache_type)
        mem1 == IF key \in DOMAIN memory_cache THEN DictDel(memory_cache, key)
                ELSE memory_cache
    IN  IF memHit
        THEN [mem |-> memory_cache, disk |-> disk, ret |-> memory_cache[key].data,
              error |-> "none"]
        ELSE IF key \notin DOMAIN disk
        THEN [mem |-> mem1, disk |-> disk, ret |-> PyNone, error |-> "none"]
        ELSE IF ~Parses(disk[key])
        THEN [mem |-> mem1, disk |-> disk, ret |-> PyNone, error |-> "caught"]
        ELSE IF _is_cache_valid(disk[key].doc, cache_type)
        THEN [mem |-> DictPut(mem1, key, disk[key].doc), disk |-> disk,
              ret |-> disk[key].doc.data, error |-> "none"]
        ELSE [mem |-> mem1, disk |-> disk, ret |-> PyNone, error |-> "none"]

\* variant: get has no except clause, the json.load error reaches the caller
GetResultUncaught(cache_type, symbol, kwargs) ==
    LET key == _get_cache_key(cache_type, symbol, kwargs)
        memHit == key \in DOMAIN memory_cache
                  /\ _is_cache_valid(memory_cache[key], cache_type)
        mem1 == IF key \in DOMAIN memory_cache THEN DictDel(memory_cache, key)
                ELSE memory_cache
    IN  IF memHit
        THEN [mem |-> memory_cache, disk |-> disk, ret |-> memory_cache[key].data,
              error |-> "none"]
        ELSE IF key \notin DOMAIN disk
        THEN [mem |-> mem1, disk |-> disk, ret |-> PyNone, error |-> "none"]
        ELSE IF ~Parses(disk[key])
        THEN [mem |-> mem1, disk |-> disk, ret |-> PyNone, error |-> "raised"]
        ELSE IF _is_cache_valid(disk[key].doc, cache_type)
        THEN [mem |-> DictPut(mem1, key, disk[key].doc), disk |-> disk,
              ret |-> disk[key].doc.data, error |-> "none"]
        ELSE [mem |-> mem1, disk |-> DictDel(disk, key), ret |-> PyNone,
              error |-> "none"]

\* variant: a promoted entry is stamped with the instant of the read
GetResultRestamp(cache_type, symbol, kwargs) ==
    LET key == _get_cache_key(cache_type, symbol, kwargs)
        memHit == key \in DOMAIN memory_cache
                  /\ _is_cache_valid(memory_cache[key], cache_type)
        mem1 == IF key \in DOMAIN memory_cache THEN DictDel(memory_cache, key)
                ELSE memory_cache
    IN  IF memHit
        THEN [mem |-> memory_cache, disk |-> disk, ret |-> memory_cache[key].data,
              error |-> "none"]
        ELSE IF key \notin DOMAIN disk
        THEN [mem |-> mem1, disk |-> disk, ret |-> PyNone, error |-> "none"]
        ELSE IF ~Parses(disk[key])
        THEN [mem |-> mem1, disk |-> disk, ret |-> PyNone, error |-> "caught"]
        ELSE IF _is_cache_valid(disk[key].doc, cache_type)
        THEN [mem |-> DictPut(mem1, key, [disk[key].doc EXCEPT !.cached_at = now]),
              disk |-> disk, ret |-> disk[key].doc.data, error |-> "none"]
        ELSE [mem |-> mem1, disk |-> DictDel(disk, key), ret |-> PyNone,
              error |-> "none"]

\* CacheManager.get: the two tiers after the call, its return value, and
\* whether an exception occurred in it ("caught": logged, None returned)
GetResult(cache_type, symbol, kwargs) ==
    LET key == _get_cache_key(cache_type, symbol, kwargs)
        memHit == key \in DOMAIN memory_cache
                  /\ _is_cache_valid(memory_cache[key], cache_type)
        \* an expired memory entry is deleted before the file is looked at
        mem1 == IF key \in DOMAIN memory_cache THEN DictDel(memory_cache, key)
                ELSE memory_cache
    IN  IF memHit
        THEN [mem |-> memory_cache, disk |-> disk, ret |-> memory_cache[key].data,
              error |-> "none"]
        ELSE IF key \notin DOMAIN disk
        THEN [mem |-> mem1, disk |-> disk, ret |-> PyNone, error |-> "none"]
        ELSE IF ~Parses(disk[key])
        THEN \* json.load raises; the outer except logs and returns None
             [mem |-> mem1, disk |-> disk, ret |-> PyNone, error |-> "caught"]
        ELSE IF _is_cache_valid(disk[key].doc, cache_type)
        THEN [mem |-> DictPut(mem1, key, disk[key].doc), disk |-> disk,
              ret |-> disk[key].doc.data, error |-> "none"]
        ELSE [mem |-> mem1, disk |-> DictDel(disk, key), ret |-> PyNone,
              error |-> "none"]

\* what the file write of set does: "ok", or "dump_fails" (the file was
\* opened, hence truncated, and json.dump or the flush raised)
WriteOutcomes == {"ok", "dump_fails"}

\* variant: set keeps a memory entry that is already there
SetResultKeepMemory(cache_type, symbol, data, kwargs, w) ==
    LET key == _get_cache_key(cache_type, symbol, kwargs)
        cache_entry == CacheEntry(cache_type, symbol, kwargs, data)
        mem1 == IF key \in DOMAIN memory_cache THEN memory_cache
                ELSE DictPut(memory_cache, key, cache_entry)
    IN  IF w = "ok"
        THEN [mem |-> mem1, disk |-> DictPut(disk, key, JsonDump(cache_entry)),
              ret |-> TRUE, error |-> "none"]
        ELSE [mem |-> mem1, disk |-> DictPut(disk, key, Truncated),
              ret |-> FALSE, error |-> "caught"]

\* CacheManager.set: the two tiers after the call, its return value, and
\* whether an exception occurred in it ("caught": logged, False returned)
SetResult(cache_type, symbol, data, kwargs, w) ==
    LET key == _get_cache_key(cache_type, symbol, kwargs)
        cache_entry == CacheEntry(cache_type, symbol, kwargs, data)
        mem1 == DictPut(memory_cache, key, cache_entry)
    IN  IF w = "ok"
        THEN [mem |-> mem1, disk |-> DictPut(disk, key, JsonDump(cache_entry)),
              ret |-> TRUE, error |-> "none"]
        ELSE [mem |-> mem1, disk |-> DictPut(disk, key, Truncated),
              ret |-> FALSE, error |-> "caught"]

\* the effect of a call of CacheManager.get on the cache
get_call(cache_type, symbol, kwargs) ==
    LET r == GetResult(cache_type, symbol, kwargs)
        key == _get_cache_key(cache_type, symbol, kwargs)
    IN  /\ memory_cache' = r.mem
        /\ disk' = r.disk
        /\ last' = [NoCall EXCEPT !.op = "get", !.cache_type = cache_type,
                        !.symbol = symbol, !.kwargs = kwargs, !.key = key,
                        !.ret = r.ret, !.at = now,
                        !.preMem = MemEntry(key), !.preDisk = DiskFile(key),
                        !.follows = FollowsSet(key)]

\* the effect of a call of CacheManager.set on the cache
set_call(cache_type, symbol, data, kwargs, w) ==
    LET r == SetResult(cache_type, symbol, data, kwargs, w)
        key == _get_cache_key(cache_type, symbol, kwargs)
    IN  /\ memory_cache' = r.mem
        /\ disk' = r.disk
        /\ last' = [NoCall EXCEPT !.op = "set", !.cache_type = cache_type,
                        !.symbol = symbol, !.kwargs = kwargs, !.key = key,
                        !.data = data, !.ok = r.ret, !.at = now]

\* CacheManager.get called directly
get(cache_type, symbol, kwargs) ==
    /\ get_call(cache_type, symbol, kwargs)
    /\ UNCHANGED <<nse, call, now, nset, enable_cache, nreq, req>>

\* CacheManager.set called directly
set(cache_type, symbol, data, kwargs, w) ==
    /\ set_call(cache_type, symbol, data, kwargs, w)
    /\ nset' = nset + 1
    /\ UNCHANGED <<nse, call, now, enable_cache, nreq, req>>

\* the filter of invalidate on a memory entry
Matches(cache_data, cache_type, symbol) ==
    /\ (cache_type = NoArg \/ cache_data.cache_type = cache_type)
    /\ (symbol = NoSymbol \/ cache_data.symbol = symbol)

InvalidateResult(cache_type, symbol) ==
    IF cache_type = NoArg /\ symbol = NoSymbol
    THEN [mem |-> EmptyDict, disk |-> EmptyDict]
    ELSE LET keys_to_remove ==
                 {k \in DOMAIN memory_cache : Matches(memory_cache[k], cache_type, symbol)}
         IN [ mem |-> [k \in (DOMAIN memory_cache) \ keys_to_remove |-> memory_cache[k]],
              disk |-> [k \in (DOMAIN disk) \ keys_to_remove |-> disk[k]] ]

invalidate(cache_type, symbol) ==
    LET r == InvalidateResult(cache_type, symbol)
    IN  /\ memory_cache' = r.mem
        /\ disk' = r.disk
        /\ last' = [NoCall EXCEPT !.op = "invalidate", !.cache_type = cache_type,
                        !.symbol = symbol, !.at = now]
        /\ UNCHANGED <<nse, call, now, nset, enable_cache, nreq, req>>

\* the entries cleanup_expired removes from each tier
ExpiredMemKeys ==
    {k \in DOMAIN memory_cache :
        ~_is_cache_valid(memory_cache[k], memory_cache[k].cache_type)}

\* variant: files that do not parse are skipped by the sweep
ExpiredDiskKeysParsedOnly ==
    {k \in DOMAIN disk :
        Parses(disk[k]) /\ ~_is_cache_valid(disk[k].doc, disk[k].doc.cache_type)}

ExpiredDiskKeys ==
    {k \in DOMAIN disk :
        \/ ~Parses(disk[k])
        \/ ~_is_cache_valid(disk[k].doc, disk[k].doc.cache_type)}

\* variant: a key removed from both tiers is counted once
CleanupResultCountsKeys ==
    [ mem |-> [k \in (DOMAIN memory_cache) \ ExpiredMemKeys |-> memory_cache[k]],
      disk |-> [k \in (DOMAIN disk) \ ExpiredDiskKeys |-> disk[k]],
      ret |-> Cardinality(ExpiredMemKeys \cup ExpiredDiskKeys) ]

\* variant: the sweep leaves the memory tier alone
CleanupResultFilesOnly ==
    [ mem |-> memory_cache,
      disk |-> [k \in (DOMAIN disk) \ ExpiredDiskKeys |-> disk[k]],
      ret |-> Cardinality(ExpiredDiskKeys) ]

CleanupResult ==
    [ mem |-> [k \in (DOMAIN memory_cache) \ ExpiredMemKeys |-> memory_cache[k]],
      disk |-> [k \in (DOMAIN disk) \ ExpiredDiskKeys |-> disk[k]],
      ret |-> Cardinality(ExpiredMemKeys) + Cardinality(ExpiredDiskKeys) ]

cleanup_expired ==
    LET r == CleanupResult
    IN  /\ memory_cache' = r.mem
        /\ disk' = r.disk
        /\ last' = [NoCall EXCEPT !.op = "cleanup_expired", !.count = r.ret, !.at = now]
        /\ UNCHANGED <<nse, call, now, nset, enable_cache, nreq, req>>

\* a new process constructs a CacheManager over the same cache_dir
CacheManagerInit ==
    /\ memory_cache' = EmptyDict
    /\ last' = [NoCall EXCEPT !.op = "init", !.at = now]
    /\ UNCHANGED <<nse, call, now, disk, nset, enable_cache, nreq, req>>

\* the wall clock advances
Tick ==
    /\ \E t \in Instants :
          /\ t > now
          /\ now' = t
    /\ UNCHANGED <<nse, call, memory_cache, disk, last, nset, enable_cache, nreq, req>>

----------------------------------------------------------------------------
(* Vendor adapters: what a call returns is decided by the vendor; outcome   *)
(* "ok" is a data payload, "error" the adapter's error payload, "raise" an *)
(* exception that leaves the adapter call                                  *)

Sources == {"nse", "yahoo"}
Outcomes == {"ok", "error", "raise"}
Raised == [raised |-> TRUE]

PyList(seq) == [t |-> "list", v |-> seq]
PyDict(d) == [t |-> "dict", v |-> d]

indian_indices ==
    << <<NIFTY, NSEI>>, <<NIFTY50, NSEI>>, <<SENSEX, BSESN>>, <<BANKNIFTY, NSEBANK>> >>

\* YahooFinanceClient.normalize_symbol
YahooNormalizeSymbol(symbol) ==
    LET sym == Upper(Strip(symbol))
    IN  IF \E i \in DOMAIN indian_indices : indian_indices[i][1] = sym
        THEN indian_indices[CHOOSE i \in DOMAIN indian_indices : indian_indices[i][1] = sym][2]
        ELSE IF ~EndsWith(sym, <<".", "N", "S">>) /\ ~(sym # <<>> /\ Head(sym) = "^")
        THEN sym \o <<".", "N", "S">>
        ELSE sym

\* the error payloads of the adapters: {"error": str(e), "symbol": symbol}
\* for a call that takes a symbol, {"error": str(e)} for get_market_indices
ErrorPayload(symbol) == [error |-> PyStr("No data available"), symbol |-> PyStr(symbol)]
IndicesErrorPayload == [error |-> PyStr("Failed to fetch market indices")]

\* NSEClient._parse_equity_quote, with sample quote values
NsePrice(symbol) ==
    [ symbol |-> PyStr(symbol),
      nse_symbol |-> PyStr(symbol),
      company_name |-> PyStr("company"),
      price |-> PyFloat(5),
      change |-> PyFloat(1),
      change_percent |-> PyFloat(2),
      open |-> PyFloat(4),
      high |-> PyFloat(6),
      low |-> PyFloat(3),
      previous_close |-> PyFloat(4),
      volume |-> PyInt(0),
      value |-> PyFloat(0),
      market_cap |-> PyNoneVal,
      pe_ratio |-> PyNoneVal,
      pb_ratio |-> PyNoneVal,
      dividend_yield |-> PyNoneVal,
      timestamp |-> PyTime(now),
      source |-> PyStr("nse"),
      market_state |-> PyStr("open") ]

\* the payload of YahooFinanceClient.get_real_time_price, with sample values
YahooPrice(symbol) ==
    [ symbol |-> PyStr(symbol),
      normalized_symbol |-> PyStr(YahooNormalizeSymbol(symbol)),
      price |-> PyFloat(9),
      open |-> PyFloat(8),
      high |-> PyFloat(9),
      low |-> PyFloat(7),
      volume |-> PyInt(9),
      timestamp |-> PyTime(now),
      currency |-> PyStr("INR"),
      market_cap |-> PyInt(9),
      pe_ratio |-> PyInt(9),
      day_change |-> PyFloat(1),
      day_change_percent |-> PyFloat(12),
      source |-> PyStr("yahoo_finance"),
      market_state |-> PyStr("open") ]

\* the payload of YahooFinanceClient.get_historical_data, one bar
YahooHistory(symbol, period, interval) ==
    [ symbol |-> PyStr(symbol),
      normalized_symbol |-> PyStr(YahooNormalizeSymbol(symbol)),
      period |-> PyStr(period),
      interval |-> PyStr(interval),
      data |-> PyList(<< [ timestamp |-> PyTime(now), open |-> PyFloat(8),
                           high |-> PyFloat(9), low |-> PyFloat(7),
                           close |-> PyFloat(9), volume |-> PyInt(9) ] >>),
      count |-> PyInt(1),
      source |-> PyStr("yahoo_finance") ]

\* NSEClient._parse_historical_data, one chart point
NseHistory(symbol, period, interval) ==
    [ symbol |-> PyStr(symbol),
      period |-> PyStr(period),
      interval |-> PyStr(interval),
      data |-> PyList(<< [timestamp |-> PyInt(1), price |-> PyFloat(5)] >>),
      count |-> PyInt(1),
      source |-> PyStr("nse"),
      note |-> PyStr("NSE provides limited historical data") ]

\* NSEClient._parse_indices_data, one index; a dict of dicts is the
\* sequence of its items
NseIndices ==
    [ indices |-> PyDict(<< <<NIFTY_50_KEY,
                              [ name |-> PyStr(NIFTY_50), price |-> PyFloat(5),
                                change |-> PyFloat(1), change_percent |-> PyFloat(2),
                                open |-> PyFloat(4), high |-> PyFloat(6),
                                low |-> PyFloat(3), previous_close |-> PyFloat(4) ]>> >>),
      timestamp |-> PyTime(now),
      market_state |-> PyStr("open"),
      source |-> PyStr("nse") ]

\* the payload of YahooFinanceClient.get_market_indices, two indices
YahooIndices ==
    [ indices |-> PyDict(<< <<NIFTY,
                              [ symbol |-> PyStr(NSEI), price |-> PyFloat(9),
                                change |-> PyFloat(1), change_percent |-> PyFloat(12),
                                high |-> PyFloat(9), low |-> PyFloat(7),
                                volume |-> PyInt(9), timestamp |-> PyTime(now) ]>>,
                            <<NIFTY50,
                              [ symbol |-> PyStr(NSEI), price |-> PyFloat(9),
                                change |-> PyFloat(1), change_percent |-> PyFloat(12),
                                high |-> PyFloat(9), low |-> PyFloat(7),
                                volume |-> PyInt(9), timestamp |-> PyTime(now) ]>> >>),
      timestamp |-> PyTime(now),
      market_state |-> PyStr("open"),
      source |-> PyStr("yahoo_finance") ]

\* what the adapter `source` returns to the orchestrator operation `op`
AdapterResult(source, op, symbol, kwargs, outcome) ==
    IF outcome = "raise" THEN Raised
    ELSE IF op = "get_market_indices"
    THEN (IF outcome = "error" THEN IndicesErrorPayload
          ELSE IF source = "nse" THEN NseIndices ELSE YahooIndices)
    ELSE IF outcome = "error" THEN ErrorPayload(symbol)
    ELSE IF op = "get_real_time_price"
    THEN (IF source = "nse"
          THEN (IF outcome = "overflow"
                THEN \* quantityTraded is an integer beyond the float range
                     [NsePrice(symbol) EXCEPT !.volume = PyBigInt]
                ELSE NsePrice(symbol))
          ELSE YahooPrice(symbol))
    ELSE (IF source = "nse" THEN NseHistory(symbol, kwargs.period, kwargs.interval)
          ELSE YahooHistory(symbol, kwargs.period, kwargs.interval))

----------------------------------------------------------------------------
(* DataNormalizer.normalize_historical_data *)

NormalizedPoint(point) ==
    [ timestamp |-> DictGet(point, "timestamp", PyNoneVal),
      open |-> _safe_float(DictGet(point, "open", PyInt(0))),
      high |-> _safe_float(DictGet(point, "high", PyInt(0))),
      low |-> _safe_float(DictGet(point, "low", PyInt(0))),
      close |-> _safe_float(DictGet(point, "close", PyInt(0))),
      volume |-> _safe_int(DictGet(point, "volume", PyInt(0))) ]

\* a list element that is a dict (scalars carry the tag t)
IsDict(x) == "t" \notin DOMAIN x

normalize_historical_data(raw_data) ==
    IF "error" \in DOMAIN raw_data THEN PyNone
    ELSE IF SymbolRaises(raw_data) THEN PyNone
    ELSE LET data == DictGet(raw_data, "data", PyList(<<>>))
         IN  IF data.t # "list" \/ \E i \in DOMAIN data.v : ~IsDict(data.v[i])
             THEN PyNone    \* point.get raises, the except returns None
             ELSE [ symbol |-> NormalizedSymbol(raw_data),
                    period |-> DictGet(raw_data, "period", PyStr("unknown")),
                    interval |-> DictGet(raw_data, "interval", PyStr("unknown")),
                    data |-> [i \in DOMAIN data.v |-> NormalizedPoint(data.v[i])],
                    count |-> DictGet(raw_data, "count", PyInt(Len(data.v))),
                    source |-> DictGet(raw_data, "source", PyStr("unknown")),
                    timestamp |-> DictGet(raw_data, "timestamp", PyTime(now)) ]

----------------------------------------------------------------------------
(* DataNormalizer.normalize_indices_data *)

NormalizedIndex(normalized_name, index_data) ==
    [ name |-> DictGet(index_data, "name", PyStr(normalized_name)),
      price |-> _safe_float(DictGet(index_data, "price", PyInt(0))),
      change |-> _safe_float(DictGet(index_data, "change", PyInt(0))),
      change_percent |-> _safe_float(DictGet(index_data, "change_percent", PyInt(0))),
      open |-> _safe_float(DictGet(index_data, "open", PyInt(0))),
      high |-> _safe_float(DictGet(index_data, "high", PyInt(0))),
      low |-> _safe_float(DictGet(index_data, "low", PyInt(0))),
      previous_close |-> _safe_float(DictGet(index_data, "previous_close", PyInt(0))),
      volume |-> _safe_int(DictGet(index_data, "volume", PyInt(0))) ]

normalize_indices_data(raw_data) ==
    IF "error" \in DOMAIN raw_data THEN PyNone
    ELSE LET raw_indices == DictGet(raw_data, "indices", PyDict(<<>>))
         IN  IF raw_indices.t # "dict"
             THEN PyNone    \* raw_indices.items() raises, the except returns None
             ELSE LET items == raw_indices.v
                      names == {_normalize_symbol(items[i][1]) : i \in DOMAIN items}
                      \* a later item overwrites an earlier one of the same name
                      lastOf(n) == CHOOSE i \in DOMAIN items :
                                      /\ _normalize_symbol(items[i][1]) = n
                                      /\ \A j \in DOMAIN items :
                                            _normalize_symbol(items[j][1]) = n => j <= i
                  IN [ indices |-> [n \in names |-> NormalizedIndex(n, items[lastOf(n)][2])],
                       timestamp |-> DictGet(raw_data, "timestamp", PyTime(now)),
                       market_state |-> DictGet(raw_data, "market_state", PyStr("unknown")),
                       source |-> DictGet(raw_data, "source", PyStr("unknown")) ]

----------------------------------------------------------------------------
(* IndianMarketDataAPI *)

source_priority ==
    [ real_time |-> <<"nse", "yahoo">>,
      historical |-> <<"yahoo", "nse">>,
      indices |-> <<"nse", "yahoo">>,
      company_info |-> <<"yahoo", "nse">> ]

Ops == {"get_real_time_price", "get_historical_data", "get_market_indices"}

\* the priority list an operation iterates over
PriorityOf(op) ==
    IF op = "get_real_time_price" THEN source_priority["real_time"]
    ELSE IF op = "get_historical_data" THEN source_priority["historical"]
    ELSE source_priority["indices"]

\* the category an operation caches under
CacheTypeOf(op, kwargs) ==
    IF op = "get_real_time_price" THEN "real_time"
    ELSE IF op = "get_market_indices" THEN "indices"
    ELSE IF kwargs.interval = "1d" THEN "historical_1d"
    ELSE "historical_intraday"

\* the normalizer an operation returns through
Normalize(op, raw_data) ==
    IF op = "get_real_time_price" THEN normalize_price_data(raw_data)
    ELSE IF op = "get_historical_data" THEN normalize_historical_data(raw_data)
    ELSE normalize_indices_data(raw_data)

\* variant: an error payload counts as data
IsSuccessAnyPayload(data) == data # Raised /\ Truthy(data)

\* `if data and "error" not in data`
IsSuccess(data) == data # Raised /\ Truthy(data) /\ "error" \notin DOMAIN data

\* variant: the loop of get_real_time_price goes on after the first success
\* and stops at the second
RealTimeLoopBodyTwoSources(primary_data, fallback_data, data) ==
    IF ~IsSuccess(data)
    THEN [primary_data |-> primary_data, fallback_data |-> fallback_data, brk |-> FALSE]
    ELSE IF primary_data = PyNone
    THEN [primary_data |-> data, fallback_data |-> fallback_data, brk |-> FALSE]
    ELSE [primary_data |-> primary_data, fallback_data |-> data, brk |-> TRUE]

\* one iteration of the source loop of get_real_time_price, after the
\* adapter returned data (or raised): the new primary_data and
\* fallback_data, and whether the loop is left by break
RealTimeLoopBody(primary_data, fallback_data, data) ==
    IF ~IsSuccess(data)
    THEN [primary_data |-> primary_data, fallback_data |-> fallback_data, brk |-> FALSE]
    ELSE IF primary_data = PyNone
    THEN [primary_data |-> data, fallback_data |-> fallback_data, brk |-> TRUE]
    ELSE [primary_data |-> primary_data, fallback_data |-> data, brk |-> TRUE]

\* one iteration of the source loop of get_historical_data and of
\* get_market_indices: the first success is kept and ends the loop by return
FirstSuccessLoopBody(primary_data, fallback_data, data) ==
    IF ~IsSuccess(data)
    THEN [primary_data |-> primary_data, fallback_data |-> fallback_data, brk |-> FALSE]
    ELSE [primary_data |-> data, fallback_data |-> fallback_data, brk |-> TRUE]

LoopBody(op, primary_data, fallback_data, data) ==
    IF op = "get_real_time_price"
    THEN RealTimeLoopBody(primary_data, fallback_data, data)
    ELSE FirstSuccessLoopBody(primary_data, fallback_data, data)

\* the payload that is cached and normalized once the loop is over
FinalPayload(op, primary_data, fallback_data) ==
    IF op = "get_real_time_price" /\ Truthy(primary_data) /\ Truthy(fallback_data)
    THEN merge_data_sources(primary_data, fallback_data)
    ELSE primary_data

\* a request as it is when the operation is entered
NewRequest(op, symbol, kwargs, use_cache, env) ==
    [ op |-> op, symbol |-> symbol, kwargs |-> kwargs, use_cache |-> use_cache,
      env |-> env,              \* what each adapter answers if it is called
      pc |-> "start",           \* "awaiting": suspended in an adapter call
      idx |-> 0,                \* position in the priority list
      called |-> <<>>,          \* the adapters called so far, in order
      cache_get |-> "skipped",  \* "hit", "miss", "failed" (error inside get)
      cache_set |-> "skipped",  \* "ok", "failed" (set returned False)
      primary_data |-> PyNone,
      fallback_data |-> PyNone,
      payload |-> PyNone,       \* the payload cached and normalized
      result |-> PyNone,        \* what the caller receives
      at |-> now ]              \* the instant of entry, then of return

\* the request is suspended in the call of the adapter at position idx
Awaiting(rq, idx) ==
    [rq EXCEPT !.pc = "awaiting", !.idx = idx,
               !.called = Append(rq.called, PriorityOf(rq.op)[idx])]

\* the request returns result to its caller
Returned(rq, result) == [rq EXCEPT !.pc = "done", !.result = result, !.at = now]

\* variant: the use_cache argument of the request is ignored
UsesCacheIgnoringFlag(rq) == enable_cache

\* the request uses the cache
UsesCache(rq) == rq.use_cache /\ enable_cache

\* variant: the cached payload is looked up but the sources are asked anyway
EnterAlwaysFetch(rq) ==
    LET ct == CacheTypeOf(rq.op, rq.kwargs)
        r == GetResult(ct, rq.symbol, rq.kwargs)
    IN  IF UsesCache(rq)
        THEN /\ get_call(ct, rq.symbol, rq.kwargs)
             /\ req' = << Awaiting([rq EXCEPT !.cache_get =
                                      IF r.error = "caught" THEN "failed" ELSE "miss"], 1) >>
        ELSE /\ req' = << Awaiting(rq, 1) >>
             /\ UNCHANGED <<memory_cache, disk, last>>

\* entry of an operation up to its first suspension: the cache lookup and,
\* on a miss, the call of the first adapter; others are the requests that
\* are in flight in the same event loop
EnterAmong(others, rq) ==
    LET ct == CacheTypeOf(rq.op, rq.kwargs)
        r == GetResult(ct, rq.symbol, rq.kwargs)
    IN  IF UsesCache(rq)
        THEN /\ get_call(ct, rq.symbol, rq.kwargs)
             /\ req' = Append(others,
                       IF r.error = "raised"
                       THEN \* the outer except of the operation returns None
                            Returned([rq EXCEPT !.cache_get = "raised"], PyNone)
                       ELSE IF Truthy(r.ret)
                       THEN Returned([rq EXCEPT !.cache_get = "hit"],
                                     Normalize(rq.op, r.ret))
                       ELSE Awaiting([rq EXCEPT !.cache_get =
                                        IF r.error = "caught" THEN "failed" ELSE "miss"], 1))
        ELSE /\ req' = Append(others, Awaiting(rq, 1))
             /\ UNCHANGED <<memory_cache, disk, last>>

\* entry of an operation called while no other request is in flight
Enter(rq) == EnterAmong(<<>>, rq)

\* the adapter call of request i returns; the operation runs on to its next
\* adapter call or to its return
AdapterReturn(i) ==
    /\ i \in DOMAIN req
    /\ req[i].pc = "awaiting"
    /\ LET rq == req[i]
           source == PriorityOf(rq.op)[rq.idx]
           data == AdapterResult(source, rq.op, rq.symbol, rq.kwargs, rq.env[source])
           b == LoopBody(rq.op, rq.primary_data, rq.fallback_data, data)
           rq1 == [rq EXCEPT !.primary_data = b.primary_data,
                             !.fallback_data = b.fallback_data]
           payload == FinalPayload(rq.op, b.primary_data, b.fallback_data)
           ct == CacheTypeOf(rq.op, rq.kwargs)
       IN  IF ~b.brk /\ rq.idx < Len(PriorityOf(rq.op))
           THEN \* continue with the next source
                /\ req' = [req EXCEPT ![i] = Awaiting(rq1, rq.idx + 1)]
                /\ UNCHANGED <<memory_cache, disk, last>>
           ELSE IF ~Truthy(b.primary_data)
           THEN \* no source had data
                /\ req' = [req EXCEPT ![i] = Returned(rq1, PyNone)]
                /\ UNCHANGED <<memory_cache, disk, last>>
           ELSE IF UsesCache(rq)
           THEN \E w \in WriteOutcomes :
                    LET r == SetResult(ct, rq.symbol, payload, rq.kwargs, w)
                    IN  /\ set_call(ct, rq.symbol, payload, rq.kwargs, w)
                        /\ req' = [req EXCEPT ![i] =
                              IF r.error = "raised"
                              THEN Returned([rq1 EXCEPT !.payload = payload,
                                                        !.cache_set = "raised"], PyNone)
                              ELSE Returned([rq1 EXCEPT !.payload = payload,
                                                !.cache_set = IF r.ret THEN "ok" ELSE "failed"],
                                            Normalize(rq.op, payload))]
           ELSE /\ req' = [req EXCEPT ![i] =
                              Returned([rq1 EXCEPT !.payload = payload],
                                       Normalize(rq.op, payload))]
                /\ UNCHANGED <<memory_cache, disk, last>>
    /\ UNCHANGED <<nse, call, now, nset, enable_cache, nreq>>

\* the symbols, keyword arguments and vendor behaviours of the requests
HistoryKwargs == [period |-> "1y", interval |-> "1d"]
KwargsOf(op) == IF op = "get_historical_data" THEN HistoryKwargs ELSE NoKwargs
SymbolOf(op) == IF op = "get_market_indices" THEN ALL_INDICES ELSE RELIANCE
Envs == [Sources -> Outcomes]

\* a caller invokes an operation; requests are made one after the other
Request ==
    /\ nreq < MaxReq
    /\ \A i \in DOMAIN req : req[i].pc = "done"
    /\ \E op \in Ops, use_cache \in BOOLEAN, env \in Envs :
          Enter(NewRequest(op, SymbolOf(op), KwargsOf(op), use_cache, env))
    /\ nreq' = nreq + 1
    /\ UNCHANGED <<nse, call, now, nset, enable_cache>>

\* IndianMarketDataAPI(enable_cache) is constructed by a new process
ApiInit ==
    /\ \A i \in DOMAIN req : req[i].pc = "done"
    /\ \E e \in BOOLEAN : enable_cache' = e
    /\ memory_cache' = EmptyDict
    /\ last' = [NoCall EXCEPT !.op = "init", !.at = now]
    /\ req' = <<>>
    /\ UNCHANGED <<nse, call, now, disk, nset, nreq>>

----------------------------------------------------------------------------
(* NSEClient._get_session: the coroutines of one event loop share the client *)

MaxTasks == 2

\* NSEClient.__init__: no session; tasks are the calls made on the client,
\* sent the requests put on the wire, in order, each with the state the
\* cookie request of the session was in at that moment
NewClient ==
    [ session |-> "None",       \* "open" once aiohttp.ClientSession was created
      priming |-> "not_sent",   \* "in_flight", "done", "failed"
      tasks |-> <<>>,
      sent |-> <<>>,
      warnings |-> 0 ]          \* "Failed to get NSE cookies" log records

\* the data request of an operation, sent by task i
DataRequest(c, i) ==
    [c EXCEPT !.sent = Append(c.sent, [task |-> i, url |-> c.tasks[i].op,
                                        priming |-> c.priming]),
              !.tasks[i].pc = "data"]

\* a coroutine calls an operation of the client and runs to its first await:
\* _get_session creates the session and requests the home page when there is
\* no session, and otherwise returns the session at once, after which the
\* data request is sent
NseCall ==
    /\ Len(nse.tasks) < MaxTasks
    /\ \E op \in Ops :
          LET i == Len(nse.tasks) + 1
              c == [nse EXCEPT !.tasks = Append(nse.tasks,
                                   [op |-> op, pc |-> "start", result |-> "none"])]
          IN  nse' = IF nse.session = "None"
                     THEN [c EXCEPT !.session = "open", !.priming = "in_flight",
                                    !.sent = Append(c.sent, [task |-> i, url |-> "nseindia.com",
                                                             priming |-> "in_flight"]),
                                    !.tasks[i].pc = "priming"]
                     ELSE DataRequest(c, i)
    /\ UNCHANGED <<call, now, memory_cache, disk, last, nset, enable_cache, nreq, req>>

\* the home page request of task i ends, with cookies or with an exception
\* that is logged; the task goes on to its data request
PrimingEnds ==
    /\ \E i \in DOMAIN nse.tasks, ok \in BOOLEAN :
          /\ nse.tasks[i].pc = "priming"
          /\ nse' = DataRequest([nse EXCEPT !.priming = IF ok THEN "done" ELSE "failed",
                                            !.warnings = IF ok THEN @ ELSE @ + 1], i)
    /\ UNCHANGED <<call, now, memory_cache, disk, last, nset, enable_cache, nreq, req>>

\* the data request of task i ends: the operation returns a data payload or
\* an error payload
DataEnds ==
    /\ \E i \in DOMAIN nse.tasks, ok \in BOOLEAN :
          /\ nse.tasks[i].pc = "data"
          /\ nse' = [nse EXCEPT !.tasks[i].pc = "done",
                                !.tasks[i].result = IF ok THEN "data" ELSE "error"]
    /\ UNCHANGED <<call, now, memory_cache, disk, last, nset, enable_cache, nreq, req>>

\* NSEClient.close, awaited when no call is in flight
NseClose ==
    /\ nse.tasks # <<>>
    /\ \A i \in DOMAIN nse.tasks : nse.tasks[i].pc = "done"
    /\ nse.session = "open"
    /\ nse' = [nse EXCEPT !.session = "None", !.priming = "not_sent"]
    /\ UNCHANGED <<call, now, memory_cache, disk, last, nset, enable_cache, nreq, req>>

----------------------------------------------------------------------------
(* Functions without state are applied to arguments drawn at the start *)

\* no function call is under study
NoFn == [fn |-> "none"]

\* the state of the objects when nothing has been called yet
Idle ==
    /\ now = 0
    /\ memory_cache = EmptyDict
    /\ disk = EmptyDict
    /\ last = NoCall
    /\ nset = 0
    /\ enable_cache = TRUE
    /\ nreq = 0
    /\ req = <<>>
    /\ nse = NewClient

\* the function is applied: result is what it returns for the arguments
Apply(result) ==
    /\ ~call.done
    /\ call' = [call EXCEPT !.done = TRUE, !.result = result]
    /\ UNCHANGED <<nse, now, memory_cache, disk, last, nset, enable_cache, nreq, req>>

\* the values a payload field can have
FieldValues == {PyInt(5), PyInt(0), PyFloat(0), PyNoneVal, PyStr(""), PyBool(FALSE)}

\* the dicts over the given keys and values: every subset of the keys
DictsOver(keys, values) == UNION {[K -> values] : K \in SUBSET keys}

\* adds the "source" field to a payload
WithSource(d, source) ==
    [k \in (DOMAIN d) \cup {"source"} |-> IF k = "source" THEN PyStr(source) ELSE d[k]]

MergePrimaries ==
    LET ds == DictsOver({"a", "b", "c"}, FieldValues)
    IN  ds \cup {WithSource(d, "nse") : d \in ds}
           \cup {PyNone, [error |-> PyStr("No data available")]}

MergeFallbacks ==
    { [a |-> PyInt(9), b |-> PyInt(9), c |-> PyInt(9), d |-> PyInt(9)],
      [a |-> PyInt(0), d |-> PyNoneVal, source |-> PyStr("yahoo_finance")],
      EmptyDict, PyNone, [error |-> PyStr("No data available")] }

InitMerge ==
    /\ Idle
    /\ call \in { [fn |-> "merge_data_sources", primary_data |-> p, fallback_data |-> f,
                    done |-> FALSE, result |-> PyNone] :
                      p \in MergePrimaries, f \in MergeFallbacks }

Merge ==
    /\ call.fn = "merge_data_sources"
    /\ Apply(merge_data_sources(call.primary_data, call.fallback_data))

SpecMerge == InitMerge /\ [][Merge]_vars

----------------------------------------------------------------------------
(* The adapters against the responses of their vendors *)

BOGUS123 == <<"B", "O", "G", "U", "S", "1", "2", "3">>

\* what a vendor request can come back with: data, a connection error, a
\* status other than 200, a body that is not JSON, a JSON body carrying an
\* 'error' key and no data, or a body whose fields do not convert
Responses ==
    {"ok", "network_failure", "non_200", "malformed", "error_body", "unparsable"}

\* NSEClient.nse_indices: alias -> index name (keys only matter here)
nse_indices == {NIFTY, NIFTY50, BANKNIFTY}

valid_periods == {"1d", "5d", "1mo", "3mo", "6mo", "1y", "2y", "5y", "10y", "ytd", "max"}
valid_intervals ==
    {"1m", "2m", "5m", "15m", "30m", "60m", "90m", "1h", "1d", "5d", "1wk", "1mo", "3mo"}

validate_period(period) == period \in valid_periods
validate_interval(interval) == interval \in valid_intervals

\* the payload of NSEClient._get_index_data for an index that was found
NseIndexQuote(symbol) ==
    [ symbol |-> PyStr(symbol),
      index_name |-> PyStr(NIFTY_50),
      price |-> PyFloat(5),
      change |-> PyFloat(1),
      change_percent |-> PyFloat(2),
      open |-> PyFloat(4),
      high |-> PyFloat(6),
      low |-> PyFloat(3),
      previous_close |-> PyFloat(4),
      timestamp |-> PyTime(now),
      source |-> PyStr("nse"),
      market_state |-> PyStr("open") ]

\* {"error": str(e)}: the error payload of the NSE parse helpers
BareError == [error |-> PyStr("parse error")]

\* NSEClient._get_session: the network steps it adds when no session exists
NseSessionCalls(session_open) ==
    IF session_open THEN <<>> ELSE <<"ClientSession", "GET nseindia.com">>

\* NSEClient._get_index_data: every failure is caught inside it
NseGetIndexData(symbol, index) ==
    IF index = "ok" THEN NseIndexQuote(symbol) ELSE BareError

\* NSEClient.get_real_time_price: the payload returned and the network
\* steps made, for the response to the quote request and to the index request
NseGetRealTimePrice(symbol, session_open, quote, index) ==
    LET isIndex == Upper(symbol) \in nse_indices
        base == NseSessionCalls(session_open) \o <<"GET quote-equity">>
    IN  CASE quote = "ok" ->
                [payload |-> NsePrice(symbol), network |-> base]
          [] quote = "unparsable" ->
                \* _parse_equity_quote catches and returns its own payload
                [payload |-> [error |-> PyStr("Failed to parse equity data")],
                 network |-> base]
          [] quote \in {"network_failure", "malformed"} ->
                [payload |-> ErrorPayload(symbol), network |-> base]
          [] OTHER ->
                \* status not 200, or 'error' in the body: try as an index
                IF isIndex
                THEN [payload |-> NseGetIndexData(symbol, index),
                      network |-> Append(base, "GET equity-stockIndices")]
                ELSE [payload |-> ErrorPayload(symbol), network |-> base]

\* NSEClient.get_historical_data: period and interval are not looked at
\* before the request
NseGetHistoricalData(symbol, period, interval, session_open, chart) ==
    LET base == NseSessionCalls(session_open) \o <<"GET chart-databyindex">>
    IN  CASE chart = "ok" ->
                [payload |-> NseHistory(symbol, period, interval), network |-> base]
          [] chart = "error_body" ->
                \* status 200 without 'grapthData': no points, no error marker
                [payload |-> [NseHistory(symbol, period, interval) EXCEPT
                                 !.data = PyList(<<>>), !.count = PyInt(0)],
                 network |-> base]
          [] chart = "unparsable" ->
                [payload |-> BareError, network |-> base]
          [] OTHER ->
                [payload |-> ErrorPayload(symbol), network |-> base]

\* NSEClient.get_market_indices
NseGetMarketIndices(session_open, all) ==
    LET base == NseSessionCalls(session_open) \o <<"GET allIndices">>
    IN  CASE all = "ok" -> [payload |-> NseIndices, network |-> base]
          [] all = "error_body" ->
                \* status 200 without 'data': no index, no error marker
                [payload |-> [NseIndices EXCEPT !.indices = PyDict(<<>>)],
                 network |-> base]
          [] OTHER -> [payload |-> IndicesErrorPayload, network |-> base]

\* YahooFinanceClient.get_real_time_price
YahooGetRealTimePrice(symbol, ticker) ==
    IF ticker = "ok"
    THEN [payload |-> YahooPrice(symbol), network |-> <<"yf info", "yf history">>]
    ELSE [payload |-> ErrorPayload(symbol), network |-> <<"yf info">>]

\* YahooFinanceClient.get_historical_data
YahooGetHistoricalData(symbol, period, interval, ticker) ==
    IF ~validate_period(period) \/ ~validate_interval(interval)
    THEN [payload |-> ErrorPayload(symbol), network |-> <<>>]
    ELSE IF ticker = "ok"
    THEN [payload |-> YahooHistory(symbol, period, interval), network |-> <<"yf history">>]
    ELSE [payload |-> ErrorPayload(symbol), network |-> <<"yf history">>]

\* YahooFinanceClient.get_market_indices: an index whose fetch fails or is
\* empty is skipped, the payload is returned with the indices that remain
YahooGetMarketIndices(ticker) ==
    IF ticker = "ok"
    THEN [payload |-> YahooIndices, network |-> <<"yf history", "yf info">>]
    ELSE [payload |-> [YahooIndices EXCEPT !.indices = PyDict(<<>>)],
          network |-> <<"yf history">>]

AdapterOps == {"get_real_time_price", "get_historical_data", "get_market_indices"}

\* the adapter call under study returns
AdapterRun(c) ==
    CASE c.adapter = "nse" /\ c.fn = "get_real_time_price" ->
            NseGetRealTimePrice(c.symbol, c.session_open, c.response, c.index)
      [] c.adapter = "nse" /\ c.fn = "get_historical_data" ->
            NseGetHistoricalData(c.symbol, c.period, c.interval, c.session_open, c.response)
      [] c.adapter = "nse" /\ c.fn = "get_market_indices" ->
            NseGetMarketIndices(c.session_open, c.response)
      [] c.adapter = "yahoo" /\ c.fn = "get_real_time_price" ->
            YahooGetRealTimePrice(c.symbol, c.response)
      [] c.adapter = "yahoo" /\ c.fn = "get_historical_data" ->
            YahooGetHistoricalData(c.symbol, c.period, c.interval, c.response)
      [] c.adapter = "yahoo" /\ c.fn = "get_market_indices" ->
            YahooGetMarketIndices(c.response)

Periods == {"1y", "13mo"}
Intervals == {"1d", "7m"}

InitAdapter ==
    /\ Idle
    /\ call \in [ fn : AdapterOps, adapter : Sources, symbol : {RELIANCE, NIFTY, BOGUS123},
                  period : Periods, interval : Intervals, session_open : BOOLEAN,
                  response : Responses, index : {"ok", "network_failure", "not_found"},
                  done : {FALSE}, result : {PyNone} ]

AdapterCall ==
    /\ call.fn \in AdapterOps
    /\ Apply(AdapterRun(call))

SpecAdapter == InitAdapter /\ [][AdapterCall]_vars

----------------------------------------------------------------------------
(* normalize_symbol of the adapters *)

DotNS == <<".", "N", "S">>
DotNSE == <<".", "N", "S", "E">>

\* NSEClient.normalize_symbol
NseNormalizeSymbol(symbol) ==
    LET sym == Upper(Strip(symbol))
    IN  IF EndsWith(sym, DotNS) THEN DropLast(sym, 3)
        ELSE IF EndsWith(sym, DotNSE) THEN DropLast(sym, 4)
        ELSE sym

\* BaseMarketDataClient.normalize_symbol
BaseNormalizeSymbol(symbol) ==
    LET sym == Upper(Strip(symbol))
    IN  IF sym = NIFTY \/ sym = NIFTY50 THEN NSEI
        ELSE IF sym = SENSEX \/ sym = <<"B", "S", "E">> THEN BSESN
        ELSE IF ~EndsWith(sym, DotNS) /\ ~(sym # <<>> /\ Head(sym) = "^")
        THEN sym \o DotNS
        ELSE sym

SymbolRules == {"yahoo", "nse", "base"}

normalize_symbol(rule, symbol) ==
    CASE rule = "yahoo" -> YahooNormalizeSymbol(symbol)
      [] rule = "nse" -> NseNormalizeSymbol(symbol)
      [] rule = "base" -> BaseNormalizeSymbol(symbol)

MaxSuffixes == 2

Stems ==
    { <<"X">>, <<"x">>, <<" ", "X">>, NIFTY, <<"n", "i", "f", "t", "y", "5", "0">>,
      SENSEX, <<"B", "S", "E">>, BANKNIFTY, NSEI, RELIANCE, <<>> }

Suffixes == {DotNS, DotNSE, <<".", "n", "s">>, <<" ">>}

RECURSIVE Suffixed(_)
\* the stems followed by exactly n suffixes
Suffixed(n) ==
    IF n = 0 THEN Stems
    ELSE {s \o x : s \in Suffixed(n - 1), x \in Suffixes}

SymbolInputs == UNION {Suffixed(n) : n \in 0..MaxSuffixes}

InitSymbol ==
    /\ Idle
    /\ call \in [ fn : {"normalize_symbol"}, rule : SymbolRules, symbol : SymbolInputs,
                  done : {FALSE}, result : {PyNone} ]

\* the rule applied to the symbol, and applied again to what it returned
NormalizeSymbol ==
    /\ call.fn = "normalize_symbol"
    /\ LET once == normalize_symbol(call.rule, call.symbol)
       IN  Apply([once |-> once, twice |-> normalize_symbol(call.rule, once)])

SpecSymbol == InitSymbol /\ [][NormalizeSymbol]_vars

----------------------------------------------------------------------------
(* normalize_price_data on raw payloads *)

\* the key is not in the raw payload
NoField == [no_field |-> TRUE]

RequiredValues ==
    {NoField, PyFloat(5), PyInt(0), PyStr("n/a"), PyStr("7"), PyNoneVal, PyList(<<>>)}
OptionalValues == {NoField, PyNoneVal, PyFloat(4), PyStr("n/a")}

\* the raw payload with the chosen value under each key, the keys chosen
\* NoField left out
RawPayload(choice) ==
    [k \in {f \in DOMAIN choice : choice[f] # NoField} |-> choice[k]]

RawPrices ==
    { RawPayload(choice) :
        choice \in [ symbol : {PyStr(RELIANCE)}, source : {PyStr("nse")},
                     error : {NoField, PyStr("No data available")},
                     price : RequiredValues,
                     volume : RequiredValues,
                     change : {NoField, PyFloat(1)},
                     open : {NoField, PyStr("n/a")},
                     previous_close : OptionalValues,
                     pe_ratio : OptionalValues ] }

InitPrice ==
    /\ Idle
    /\ call \in [ fn : {"normalize_price_data"}, raw : RawPrices,
                  done : {FALSE}, result : {PyNone} ]

NormalizePrice ==
    /\ call.fn = "normalize_price_data"
    /\ Apply(normalize_price_data(call.raw))

SpecPrice == InitPrice /\ [][NormalizePrice]_vars

----------------------------------------------------------------------------
(* normalize_historical_data on raw series *)

MaxPoints == 2

GoodPoint ==
    [ timestamp |-> PyTime(0), open |-> PyFloat(8), high |-> PyFloat(9),
      low |-> PyFloat(7), close |-> PyFloat(9), volume |-> PyInt(9) ]

\* a full point, a point with fields missing, a point with values that do
\* not convert, an empty record, and two elements that are not records
PointValues ==
    { GoodPoint,
      [timestamp |-> PyInt(1), price |-> PyFloat(5)],
      [GoodPoint EXCEPT !.close = PyStr("n/a"), !.volume = PyNoneVal],
      EmptyDict,
      PyInt(5),
      PyNoneVal }

SeriesValues == UNION {[1..n -> PointValues] : n \in 0..MaxPoints}

RawHistories ==
    { RawPayload(choice) :
        choice \in [ symbol : {PyStr(RELIANCE)}, source : {PyStr("nse")},
                     period : {PyStr("1y")}, interval : {PyStr("1d")},
                     error : {NoField, PyStr("No data available")},
                     count : {NoField, PyInt(1)},
                     data : {PyList(series) : series \in SeriesValues} ] }

InitHistory ==
    /\ Idle
    /\ call \in [ fn : {"normalize_historical_data"}, raw : RawHistories,
                  done : {FALSE}, result : {PyNone} ]

NormalizeHistory ==
    /\ call.fn = "normalize_historical_data"
    /\ Apply(normalize_historical_data(call.raw))

SpecHistory == InitHistory /\ [][NormalizeHistory]_vars

----------------------------------------------------------------------------
(* DataNormalizer.validate_data_quality *)

\* isinstance(data, NormalizedPrice), isinstance(data, NormalizedHistoricalData)
IsNormalizedPrice(data) == data # PyNone /\ "price" \in DOMAIN data
IsNormalizedHistoricalData(data) == data # PyNone /\ "count" \in DOMAIN data

Abs(n) == IF n < 0 THEN 0 - n ELSE n
Max(a, b) == IF a > b THEN a ELSE b

\* quality_score -= n, issues.append(issue) when the test holds
Deduct(test, n) == IF test THEN n ELSE 0
Issue(test, issue) == IF test THEN <<issue>> ELSE <<>>

\* [point.get("timestamp") for point in data.data if point.get("timestamp")]
Timestamps(data) ==
    {i \in DOMAIN data.data : ValueTruthy(data.data[i].timestamp)}

\* quality_score and issues before the return statement
QualityOf(data) ==
    IF IsNormalizedPrice(data)
    THEN [ quality_score |->
               100 - Deduct(data.price.v <= 0, 30) - Deduct(data.volume.v <= 0, 10)
                   - Deduct(~ValueTruthy(data.timestamp), 20)
                   - Deduct(Abs(data.change_percent.v) > 20, 5),
           issues |->
               Issue(data.price.v <= 0, "Invalid price")
                   \o Issue(data.volume.v <= 0, "Zero volume")
                   \o Issue(~ValueTruthy(data.timestamp), "Missing timestamp")
                   \o Issue(Abs(data.change_percent.v) > 20, "High volatility") ]
    ELSE IF IsNormalizedHistoricalData(data)
    THEN LET count == data.count.v
             \* len(timestamps) < data.count * 0.9
             gaps == 10 * Cardinality(Timestamps(data)) < 9 * count
             completeness == IF count = 0 THEN 0 ELSE 100 - Deduct(count < 10, 20)
         IN  [ quality_score |-> completeness - Deduct(gaps, 15),
               issues |->
                   (IF count = 0 THEN <<"No historical data">>
                    ELSE Issue(count < 10, "Insufficient data points"))
                       \o Issue(gaps, "Missing timestamps") ]
    ELSE [quality_score |-> 100, issues |-> <<>>]

\* variant: a score of exactly 50 is not valid
validate_data_quality_strict(data) ==
    LET q == QualityOf(data)
    IN  [ quality_score |-> Max(0, q.quality_score),
          issues |-> q.issues,
          is_valid |-> q.quality_score > 50 ]

validate_data_quality(data) ==
    LET q == QualityOf(data)
    IN  [ quality_score |-> Max(0, q.quality_score),
          issues |-> q.issues,
          is_valid |-> q.quality_score >= 50 ]

MaxSeries == 11

\* the price records under study: what normalize_price_data makes of a quote
QualityPrices ==
    { normalize_price_data(
          [ symbol |-> PyStr(RELIANCE), source |-> PyStr("nse"), price |-> PyFloat(p),
            volume |-> PyInt(v), change_percent |-> PyFloat(c), timestamp |-> t ]) :
        p \in {0 - 1, 0, 5}, v \in {0 - 1, 0, 9}, c \in {0 - 21, 0 - 20, 0, 20, 21},
        t \in {PyTime(0), PyNoneVal, PyStr(<<>>)} }

\* a series of n points, the first k of them timestamped
SeriesOf(n, k) ==
    [i \in 1..n |-> IF i <= k THEN GoodPoint ELSE [GoodPoint EXCEPT !.timestamp = PyNoneVal]]

\* the series under study: what normalize_historical_data makes of an
\* adapter payload, whose count is the number of its points
QualitySeries ==
    { normalize_historical_data(
          [ symbol |-> PyStr(RELIANCE), source |-> PyStr("nse"), period |-> PyStr("1y"),
            interval |-> PyStr("1d"), data |-> PyList(SeriesOf(n, k)),
            count |-> PyInt(n) ]) :
        n \in 0..MaxSeries, k \in 0..MaxSeries }

InitQuality ==
    /\ Idle
    /\ call \in [ fn : {"validate_data_quality"}, data : QualityPrices \cup QualitySeries,
                  done : {FALSE}, result : {PyNone} ]

ValidateQuality ==
    /\ call.fn = "validate_data_quality"
    /\ Apply(validate_data_quality(call.data))

SpecQuality == InitQuality /\ [][ValidateQuality]_vars

----------------------------------------------------------------------------
(* Market hours *)

\* datetime.now(): weekday (Monday is 0), hour, minute, second
ClockReadings ==
    [ weekday : 0..6, hour : 0..23, minute : {0, 14, 15, 16, 29, 30, 31, 59},
      second : {0, 30} ]

\* the seconds of the day
SecondOfDay(t) == (t.hour * 60 + t.minute) * 60 + t.second

\* YahooFinanceClient.is_market_open, NSEClient.is_market_open
is_market_open(t) ==
    IF t.weekday >= 5 THEN FALSE
    ELSE LET market_open == (9 * 60 + 15) * 60
             market_close == (15 * 60 + 30) * 60
         IN  market_open <= SecondOfDay(t) /\ SecondOfDay(t) <= market_close

\* (now + timedelta(days=n)).replace(hour=h, minute=m, second=0)
DayAt(t, n, h, m) ==
    [days_ahead |-> n, weekday |-> (t.weekday + n) % 7, hour |-> h, minute |-> m, second |-> 0]

\* IndianMarketDataAPI.get_market_status: on a weekend next_open is computed
\* but next_event and next_time are never assigned, so the defaults of the
\* return statement apply
get_market_status(t) ==
    LET is_open == is_market_open(t)
        status(next_event, next_event_time) ==
            [ is_open |-> is_open,
              market_state |-> IF is_open THEN "open" ELSE "closed",
              next_event |-> next_event,
              next_event_time |-> next_event_time ]
    IN  IF t.weekday >= 5 THEN status("market_close", PyNoneVal)
        ELSE IF is_open THEN status("market_close", DayAt(t, 0, 15, 30))
        ELSE IF t.hour < 9 \/ (t.hour = 9 /\ t.minute < 15)
        THEN status("market_open", DayAt(t, 0, 9, 15))
        ELSE status("market_open", DayAt(t, 1, 9, 15))

InitStatus ==
    /\ Idle
    /\ call \in [ fn : {"get_market_status"}, clock : ClockReadings,
                  done : {FALSE}, result : {PyNone} ]

MarketStatus ==
    /\ call.fn = "get_market_status"
    /\ Apply(get_market_status(call.clock))

SpecStatus == InitStatus /\ [][MarketStatus]_vars

----------------------------------------------------------------------------
(* The cache manager driven directly *)

Init ==
    /\ now = 0
    /\ memory_cache = EmptyDict
    /\ disk = EmptyDict
    /\ last = NoCall
    /\ nset = 0
    /\ enable_cache = TRUE
    /\ nreq = 0
    /\ req = <<>>
    /\ nse = NewClient
    /\ call = NoFn

CallGet == \E a \in CacheArgs : get(a[1], a[2], a[3])

CallSet == nset < MaxSets /\ \E a \in CacheArgs, d \in Payloads, w \in WriteOutcomes :
               set(a[1], a[2], d, a[3], w)

CallInvalidate ==
    \E c \in {NoArg, "real_time", "custom"}, s \in {NoSymbol, RELIANCE} :
        invalidate(c, s)

Next ==
    \/ CallGet
    \/ CallSet
    \/ CallInvalidate
    \/ cleanup_expired
    \/ CacheManagerInit
    \/ Tick

Spec == Init /\ [][Next]_vars

----------------------------------------------------------------------------
(* The cache manager when no file write fails *)

CallSetOk == nset < MaxSets /\ \E a \in CacheArgs, d \in Payloads : set(a[1], a[2], d, a[3], "ok")

NextSound ==
    \/ CallGet
    \/ CallSetOk
    \/ CallInvalidate
    \/ cleanup_expired
    \/ CacheManagerInit
    \/ Tick

SpecSound == Init /\ [][NextSound]_vars

----------------------------------------------------------------------------
(* The market data API driven by its callers *)

Return == \E i \in DOMAIN req : AdapterReturn(i)

\* the instants at which the clock is sampled while requests are served:
\* the entries written at 0 are valid until 60 (real_time) or beyond
ApiInstants == {0, 60}

\* a request is in flight or a caller may still make one
Pending == nreq < MaxReq \/ \E i \in DOMAIN req : req[i].pc # "done"

\* the process and the clock are followed for as long as requests remain
Restart == Pending /\ ApiInit
Elapse ==
    /\ Pending
    /\ \E t \in ApiInstants :
          /\ t > now
          /\ now' = t
    /\ UNCHANGED <<nse, call, memory_cache, disk, last, nset, enable_cache, nreq, req>>

NextApi ==
    \/ Request
    \/ Return
    \/ Restart
    \/ Elapse

SpecApi == Init /\ [][NextApi]_vars

----------------------------------------------------------------------------
(* The real-time price operation called with several spellings of a symbol *)

Spellings == {RELIANCE, reliance, RELIANCE_NS}

\* a caller asks for the price of an instrument in one of its spellings
RequestSpelled ==
    /\ nreq < MaxReq
    /\ \A i \in DOMAIN req : req[i].pc = "done"
    /\ \E symbol \in Spellings, env \in Envs :
          Enter(NewRequest("get_real_time_price", symbol, NoKwargs, TRUE, env))
    /\ nreq' = nreq + 1
    /\ UNCHANGED <<nse, call, now, nset, enable_cache>>

NextSpelled ==
    \/ RequestSpelled
    \/ Return
    \/ Elapse

SpecSpelled == Init /\ [][NextSpelled]_vars

----------------------------------------------------------------------------
(* Requests whose payload may fail to normalize *)

\* the vendors' answers, with a quote whose volume overflows a float
EnvsOverflow == [Sources -> Outcomes \cup {"overflow"}]

RequestOverflow ==
    /\ nreq < MaxReq
    /\ \A i \in DOMAIN req : req[i].pc = "done"
    /\ \E use_cache \in BOOLEAN, env \in EnvsOverflow :
          Enter(NewRequest("get_real_time_price", RELIANCE, NoKwargs, use_cache, env))
    /\ nreq' = nreq + 1
    /\ UNCHANGED <<nse, call, now, nset, enable_cache>>

NextOverflow ==
    \/ RequestOverflow
    \/ Return
    \/ Elapse

SpecOverflow == Init /\ [][NextOverflow]_vars

----------------------------------------------------------------------------
(* Calls on one NSEClient *)

NextSession ==
    \/ NseCall
    \/ PrimingEnds
    \/ DataEnds
    \/ NseClose

SpecSession == Init /\ [][NextSession]_vars

----------------------------------------------------------------------------
(* Concurrent requests for one key: the coroutines of one event loop          *)
(* interleave at their awaits, which are the adapter calls                    *)

\* a caller starts a real-time price request while others may be in flight
RequestConcurrent ==
    /\ nreq < MaxReq
    /\ \E env \in Envs :
          EnterAmong(req, NewRequest("get_real_time_price", RELIANCE, NoKwargs, TRUE, env))
    /\ nreq' = nreq + 1
    /\ UNCHANGED <<nse, call, now, nset, enable_cache>>

NextRace ==
    \/ RequestConcurrent
    \/ Return
    \/ Elapse

SpecRace == Init /\ [][NextRace]_vars

TypeOK ==
    /\ now \in Instants
    /\ nset \in 0..MaxSets
----------------------------------------------------------------------------
(* Properties of the cache manager *)

\* the TTL table of the specification, in seconds
ClaimTtl(cache_type) ==
    CASE cache_type = "real_time" -> 60
      [] cache_type = "indices" -> 30
      [] cache_type = "historical_1d" -> 3600
      [] cache_type = "historical_intraday" -> 300
      [] cache_type = "company_info" -> 86400
      [] cache_type = "gainers_losers" -> 300
      [] cache_type = "fii_dii" -> 3600
      [] OTHER -> 600

\* entry e, read at instant t under category c, is within its lifetime
Fresh(e, c, t) == e # Absent /\ t < e.cached_at + ClaimTtl(c)

\* entry e, read at instant t under category c, is older than its TTL
Older(e, c, t) == e # Absent /\ t > e.cached_at + ClaimTtl(c)

\* the entry a file holds, Absent when there is no file or it does not parse
DocOf(file) == IF file # Absent /\ file.ok THEN file.doc ELSE Absent

GetNeverStale ==
    last.op = "get" =>
        LET c == last.cache_type
            memOk == Fresh(last.preMem, c, last.at)
            diskOk == Fresh(DocOf(last.preDisk), c, last.at)
        IN  /\ last.ret # PyNone =>
                  \/ memOk /\ last.ret = last.preMem.data
                  \/ diskOk /\ last.ret = DocOf(last.preDisk).data
            /\ (~memOk /\ ~diskOk) => last.ret = PyNone

GetNeverStaleWitness ==
    /\ last.op = "get"
    /\ last.cache_type = "custom"
    /\ last.preMem # Absent
    /\ last.at = last.preMem.cached_at + 600
    /\ last.ret = PyNone

\* C3: a get called when the entry of its key is older than the TTL of the
\* category (in memory only, on disk only, or in both) returns None and
\* leaves no entry for the key in the memory tier or in the disk tier.
LazyEviction ==
    (/\ last.op = "get"
     /\ last.preDisk # Truncated
     /\ \/ Older(last.preMem, last.cache_type, last.at)
        \/ Older(DocOf(last.preDisk), last.cache_type, last.at))
    => /\ last.ret = PyNone
       /\ last.key \notin DOMAIN memory_cache
       /\ last.key \notin DOMAIN disk

LazyEvictionWitness ==
    /\ last.op = "get"
    /\ Older(last.preMem, last.cache_type, last.at)
    /\ Older(DocOf(last.preDisk), last.cache_type, last.at)
    /\ last.ret = PyNone
    /\ last.key \notin DOMAIN memory_cache
    /\ last.key \notin DOMAIN disk

\* C4: once set has returned, the memory tier is not ahead of the disk tier
\* for the key: both tiers hold the new entry or neither does.
SetWritesBothOrNeither ==
    last.op = "set" =>
        LET e == [ cached_at |-> last.at, cache_type |-> last.cache_type,
                   symbol |-> last.symbol, kwargs |-> last.kwargs,
                   data |-> last.data ]
        IN  (MemEntry(last.key) = e) <=> (DocOf(DiskFile(last.key)) = e)

\* the filter of invalidate, as the specification states it
ClaimMatches(e, cache_type, symbol) ==
    /\ (cache_type = NoArg \/ e.cache_type = cache_type)
    /\ (symbol = NoSymbol \/ e.symbol = symbol)

\* C5: invalidate removes exactly the matching entries from both tiers (all
\* of them when called without arguments), entries that exist only on disk
\* included, and leaves every other entry unchanged.
InvalidateExact ==
    [][ (last'.op = "invalidate" /\ now' = now) =>
          LET c == last'.cache_type
              s == last'.symbol
              all == c = NoArg /\ s = NoSymbol
          IN  /\ DOMAIN memory_cache' \subseteq DOMAIN memory_cache
              /\ DOMAIN disk' \subseteq DOMAIN disk
              /\ \A k \in DOMAIN memory_cache :
                    IF ClaimMatches(memory_cache[k], c, s)
                    THEN k \notin DOMAIN memory_cache'
                    ELSE MemEntry(k)' = memory_cache[k]
              /\ \A k \in DOMAIN disk :
                    IF all THEN k \notin DOMAIN disk'
                    ELSE IF ~Parses(disk[k]) THEN TRUE
                    ELSE IF ClaimMatches(disk[k].doc, c, s)
                    THEN k \notin DOMAIN disk'
                    ELSE DiskFile(k)' = disk[k]
      ]_vars

\* entry e passes the validity check under its stored category at instant t
StoredFresh(e, t) == Fresh(e, e.cache_type, t)

\* C6: after cleanup_expired, no entry that fails its validity check (under
\* the TTL of its stored category) and no unparsable file remains in either
\* tier, and every entry that is still valid remains where it was.
CleanupSweepsBothTiers ==
    [][ (last'.op = "cleanup_expired" /\ now' = now) =>
          /\ DOMAIN memory_cache' \subseteq DOMAIN memory_cache
          /\ DOMAIN disk' \subseteq DOMAIN disk
          /\ \A k \in DOMAIN memory_cache :
                IF StoredFresh(memory_cache[k], now)
                THEN MemEntry(k)' = memory_cache[k]
                ELSE k \notin DOMAIN memory_cache'
          /\ \A k \in DOMAIN disk :
                IF Parses(disk[k]) /\ StoredFresh(disk[k].doc, now)
                THEN DiskFile(k)' = disk[k]
                ELSE k \notin DOMAIN disk'
      ]_vars

CleanupSweepsBothTiersWitness ==
    /\ last.op = "cleanup_expired"
    /\ last.at = now
    /\ last.count >= 2
    /\ DOMAIN memory_cache # {}
    /\ DOMAIN disk # {}

\* C7: a get that reaches a corrupted or unparsable file of its key (the
\* memory tier has no valid entry for it) returns None and the file no
\* longer exists afterwards.
CorruptFileDeletedOnGet ==
    (/\ last.op = "get"
     /\ last.preDisk = Truncated
     /\ ~Fresh(last.preMem, last.cache_type, last.at))
    => (last.ret = PyNone /\ last.key \notin DOMAIN disk)

----------------------------------------------------------------------------
(* Properties of the market data API *)

\* the cache lookup of request rq is the last cache call, and it found an
\* unparsable file under its key with no valid memory entry before it
LookupHitCorruptFile(rq) ==
    /\ rq.cache_get # "skipped"
    /\ last.op = "get"
    /\ last.preDisk = Truncated
    /\ ~Fresh(last.preMem, last.cache_type, last.at)

\* C8: cache failures never abort a request: a get that fails returns None
\* and the request goes on to the sources; after a set that fails (returns
\* False) the request still returns the normalized result of the successful
\* fetch; no cache error is raised to the caller.
CacheFailureNeverAborts ==
    \A i \in DOMAIN req :
        LET rq == req[i]
        IN  /\ rq.cache_get # "raised"
            /\ rq.cache_set # "raised"
            /\ LookupHitCorruptFile(rq) =>
                  /\ last.ret = PyNone
                  /\ rq.cache_get = "failed"
            /\ rq.cache_get = "failed" =>
                  /\ rq.called # <<>>
                  /\ rq.called[1] = PriorityOf(rq.op)[1]
            /\ (rq.pc = "done" /\ rq.cache_set = "failed") =>
                  /\ IsSuccess(rq.payload)
                  /\ rq.result # PyNone
                  \* compared at the instant of the return: the normalizers
                  \* stamp a payload that has no timestamp with the clock
                  /\ rq.at = now => rq.result = Normalize(rq.op, rq.payload)

CacheFailureNeverAbortsWitness ==
    \E i \in DOMAIN req :
        /\ req[i].pc = "done"
        /\ req[i].cache_get = "failed"
        /\ req[i].cache_set = "failed"
        /\ last.op = "set" /\ ~last.ok
        /\ req[i].result # PyNone
        /\ req[i].at = now
        /\ req[i].result = Normalize(req[i].op, req[i].payload)

\* the priority order of each operation, as the specification states it
ClaimPriority(op) ==
    CASE op = "get_real_time_price" -> <<"nse", "yahoo">>
      [] op = "get_market_indices" -> <<"nse", "yahoo">>
      [] op = "get_historical_data" -> <<"yahoo", "nse">>

\* C9: within a request that misses the cache the adapters are called one
\* at a time in the priority order of the category (real-time price and
\* indices: nse then yahoo; historical: yahoo then nse); an adapter is
\* called only if every adapter before it returned an error payload or
\* raised; when the first source succeeds the other adapter is never called
\* and a real-time result has source "nse".
SourcesInPriorityOrder ==
    \A i \in DOMAIN req :
        LET rq == req[i]
            order == ClaimPriority(rq.op)
            n == Len(rq.called)
        IN  /\ n <= Len(order)
            /\ rq.called = SubSeq(order, 1, n)
            /\ \A j \in 1..(n - 1) : rq.env[rq.called[j]] \in {"error", "raise"}
            \* one call at a time: the call awaited is the last one made
            /\ rq.pc = "awaiting" => (n >= 1 /\ rq.idx = n)
            /\ (rq.pc = "done" /\ n >= 1 /\ rq.env[order[1]] = "ok") =>
                  /\ rq.called = <<order[1]>>
                  /\ rq.result # PyNone
                  /\ rq.op = "get_real_time_price" => rq.result.source = PyStr("nse")

SourcesInPriorityOrderWitness ==
    \E i \in DOMAIN req :
        /\ req[i].pc = "done"
        /\ req[i].op = "get_real_time_price"
        /\ req[i].symbol = RELIANCE
        /\ req[i].cache_get = "miss"
        /\ req[i].env["nse"] = "ok"
        /\ req[i].env["yahoo"] = "ok"
        /\ req[i].called = <<"nse">>
        /\ req[i].result.source = PyStr("nse")

\* C10: in a real-time price request that misses the cache the first
\* non-error source result becomes primary; if a second source of the
\* priority list also succeeds its result becomes fallback and the loop
\* stops; the payload cached and normalized is merge(primary, fallback); at
\* most two sources are consulted.
PrimaryFallbackMerge ==
    \A i \in DOMAIN req :
        LET rq == req[i]
        IN  (rq.op = "get_real_time_price" /\ rq.pc = "done" /\ rq.called # <<>>) =>
                /\ Len(rq.called) <= 2
                /\ rq.env["nse"] = "ok" =>
                      (rq.primary_data # PyNone /\ rq.primary_data.source = PyStr("nse"))
                /\ (rq.env["nse"] = "ok" /\ rq.env["yahoo"] = "ok") =>
                      /\ rq.called = <<"nse", "yahoo">>
                      /\ rq.fallback_data # PyNone
                      /\ rq.fallback_data.source = PyStr("yahoo_finance")
                      /\ rq.payload = merge_data_sources(rq.primary_data, rq.fallback_data)
                      /\ rq.result = normalize_price_data(rq.payload)

\* every source of the request's priority list fails
AllSourcesFail(rq) ==
    \A j \in DOMAIN ClaimPriority(rq.op) : rq.env[ClaimPriority(rq.op)[j]] \in {"error", "raise"}

\* this step enters a request that misses the cache and whose sources all fail
ExhaustedEntry ==
    /\ nreq' = nreq + 1
    /\ req'[1].pc = "awaiting"
    /\ AllSourcesFail(req'[1])

\* this step is the return of a request whose sources all failed
ExhaustedReturn(i) ==
    /\ i \in DOMAIN req /\ i \in DOMAIN req'
    /\ req[i].pc = "awaiting"
    /\ req'[i].pc = "done"
    /\ AllSourcesFail(req[i])

\* C11 as stated: when every source fails the operation returns None, raises
\* nothing and leaves both cache tiers exactly as they were before the
\* request.
ExhaustionLeavesCacheUntouched ==
    [][ /\ ExhaustedEntry => (memory_cache' = memory_cache /\ disk' = disk)
        /\ \A i \in DOMAIN req :
              ExhaustedReturn(i) =>
                  /\ req'[i].result = PyNone
                  /\ req'[i].cache_get # "raised"
                  /\ memory_cache' = memory_cache /\ disk' = disk
      ]_vars

\* C11, amended: when every source fails the operation returns None, raises
\* nothing and writes nothing to the cache: no entry is added or changed in
\* either tier; the only change is the one its cache lookup makes, the
\* eviction of an expired entry of the request's own key.
ExhaustionWritesNothing ==
    [][ /\ ExhaustedEntry =>
              LET rq == req'[1]
                  key == _get_cache_key(CacheTypeOf(rq.op, rq.kwargs), rq.symbol, rq.kwargs)
              IN  /\ \A k \in DOMAIN memory_cache' :
                        k \in DOMAIN memory_cache /\ memory_cache'[k] = memory_cache[k]
                  /\ \A k \in DOMAIN disk' :
                        k \in DOMAIN disk /\ disk'[k] = disk[k]
                  /\ \A k \in (DOMAIN memory_cache) \ (DOMAIN memory_cache') :
                        k = key /\ ~Fresh(memory_cache[k], memory_cache[k].cache_type, now)
                  /\ \A k \in (DOMAIN disk) \ (DOMAIN disk') :
                        k = key /\ ~Fresh(DocOf(disk[k]), disk[k].doc.cache_type, now)
        /\ \A i \in DOMAIN req :
              ExhaustedReturn(i) =>
                  /\ req'[i].result = PyNone
                  /\ req'[i].cache_get # "raised"
                  /\ req'[i].cache_set = "skipped"
                  /\ memory_cache' = memory_cache /\ disk' = disk
      ]_vars

ExhaustionWritesNothingWitness ==
    \E i \in DOMAIN req :
        /\ req[i].pc = "done"
        /\ req[i].op = "get_real_time_price"
        /\ AllSourcesFail(req[i])
        /\ req[i].called = <<"nse", "yahoo">>
        /\ req[i].cache_get = "miss"
        /\ req[i].result = PyNone
        \* its lookup found an expired file under the key and removed it
        /\ last.op = "get"
        /\ DocOf(last.preDisk) # Absent
        /\ ~Fresh(DocOf(last.preDisk), last.cache_type, last.at)
        /\ last.key \notin DOMAIN disk

\* the valid entry that the lookup recorded in last found for its key, the
\* memory tier first; Absent when neither tier held one
ValidEntryFound ==
    IF Fresh(last.preMem, last.cache_type, last.at) THEN last.preMem
    ELSE IF Fresh(DocOf(last.preDisk), last.cache_type, last.at) THEN DocOf(last.preDisk)
    ELSE Absent

\* C12: with caching enabled and use_cache true, when the cache holds a valid
\* entry for the key of the request, the operation returns the normalization
\* of the cached raw payload at once: no adapter is called and the request
\* performs no cache write.
CacheHitShortCircuit ==
    \A i \in DOMAIN req :
        LET rq == req[i]
        IN  (rq.use_cache /\ enable_cache /\ last.op = "get" /\ ValidEntryFound # Absent) =>
                /\ last.key = _get_cache_key(CacheTypeOf(rq.op, rq.kwargs), rq.symbol, rq.kwargs)
                /\ rq.pc = "done"
                /\ rq.called = <<>>
                /\ rq.cache_set = "skipped"
                /\ rq.result # PyNone
                /\ rq.at = last.at
                /\ rq.at = now => rq.result = Normalize(rq.op, ValidEntryFound.data)
                \* the disk tier is as the lookup found it
                /\ DiskFile(last.key) = last.preDisk
                /\ MemEntry(last.key) = ValidEntryFound

CacheHitShortCircuitWitness ==
    \E i \in DOMAIN req :
        /\ req[i].use_cache /\ enable_cache
        /\ last.op = "get"
        /\ last.preMem = Absent
        /\ ValidEntryFound # Absent
        /\ req[i].op = "get_historical_data"
        /\ req[i].pc = "done"
        /\ req[i].called = <<>>
        /\ req[i].at = now
        /\ req[i].result = normalize_historical_data(ValidEntryFound.data)
        /\ req[i].result.source = PyStr("yahoo_finance")

\* two spellings name the same instrument: the alias table and the suffix
\* rule of the normalizer give them one canonical symbol
SameInstrument(s1, s2) == _normalize_symbol(s1) = _normalize_symbol(s2)

\* C13: every spelling of an instrument given to a request maps to one cache
\* key, so a value cached by a request under one spelling is a cache hit for
\* a request under any other spelling.
StableKeying ==
    \A i \in DOMAIN req :
        LET rq == req[i]
            ct == CacheTypeOf(rq.op, rq.kwargs)
        IN  \A k \in DOMAIN memory_cache :
                (/\ rq.use_cache /\ enable_cache
                 /\ rq.at = now
                 /\ memory_cache[k].cache_type = ct
                 /\ SameInstrument(memory_cache[k].symbol, rq.symbol)
                 /\ Fresh(memory_cache[k], ct, now))
                => /\ k = _get_cache_key(ct, rq.symbol, rq.kwargs)
                   /\ rq.cache_get = "hit" \/ rq.cache_set # "skipped"

\* some source of the request's priority list answers with data
SomeSourceSucceeds(rq) == \E j \in DOMAIN ClaimPriority(rq.op) : rq.env[ClaimPriority(rq.op)[j]] = "ok"

\* C14: two (or more) requests for the same key that all missed the cache
\* and all fetched: after all of them completed, under every interleaving at
\* the adapter calls, the memory tier and the disk tier each hold exactly one
\* well-formed entry for the key, which carries the payload of the write that
\* happened last, and every caller got a result that is not None.
ConcurrentRequestsRaceHarmlessly ==
    (/\ Len(req) >= 2
     /\ \A i \in DOMAIN req :
           req[i].pc = "done" /\ req[i].cache_get = "miss" /\ SomeSourceSucceeds(req[i])
     /\ last.op = "set" /\ last.ok)
    => LET key == _get_cache_key("real_time", RELIANCE, NoKwargs)
       IN  /\ DOMAIN memory_cache = {key}
           /\ DOMAIN disk = {key}
           /\ Parses(disk[key])
           /\ memory_cache[key].data = last.data
           /\ memory_cache[key].cached_at = last.at
           /\ disk[key].doc = memory_cache[key]
           /\ \E i \in DOMAIN req : req[i].payload = last.data
           /\ \A i \in DOMAIN req : req[i].result # PyNone

\* both requests missed and fetched, from different sources at different
\* instants, and the second write overwrote the first
ConcurrentRequestsRaceHarmlesslyWitness ==
    /\ Len(req) >= 2
    /\ \A i \in DOMAIN req :
          req[i].pc = "done" /\ req[i].cache_get = "miss" /\ req[i].cache_set = "ok"
    /\ req[1].called = <<"nse">>
    /\ req[2].called = <<"nse", "yahoo">>
    /\ req[1].at > req[2].at
    /\ last.op = "set" /\ last.ok
    /\ last.data = req[1].payload
    /\ memory_cache[last.key].data = req[1].payload

----------------------------------------------------------------------------
(* Properties of the normalizer *)

\* a payload is present and carries no error marker
PresentErrorFree(d) == d # PyNone /\ DOMAIN d # {} /\ "error" \notin DOMAIN d

\* the keys merge adds for observability
ProvenanceKeys == {"primary_source", "fallback_source", "merged"}

\* a value that is none or exactly zero: the number 0 as an int, as a float,
\* or as the bool False, which is the integer 0
NoneOrZero(value) ==
    \/ value = PyNoneVal
    \/ value \in {PyInt(0), PyFloat(0), PyBool(FALSE)}

\* C15: for a primary and a fallback that are both present and error-free,
\* merge returns a copy of primary in which, for each key of fallback, the
\* value comes from fallback if and only if the key is absent from primary
\* or primary's value for it is none or exactly zero; every other value of
\* primary is kept; the provenance markers are added.
MergeFillsOnlyEmpty ==
    (/\ call.fn = "merge_data_sources" /\ call.done
     /\ PresentErrorFree(call.primary_data) /\ PresentErrorFree(call.fallback_data))
    => LET p == call.primary_data
           f == call.fallback_data
           r == call.result
       IN  /\ DOMAIN r = (DOMAIN p) \cup (DOMAIN f) \cup ProvenanceKeys
           /\ \A k \in DOMAIN f :
                 IF k \notin DOMAIN p \/ NoneOrZero(p[k])
                 THEN r[k] = f[k]
                 ELSE r[k] = p[k]
           /\ \A k \in (DOMAIN p) \ (DOMAIN f) : r[k] = p[k]

\* the example of the specification
MergeFillsOnlyEmptyWitness ==
    /\ call.fn = "merge_data_sources" /\ call.done
    /\ call.primary_data = [a |-> PyInt(5), b |-> PyInt(0), c |-> PyNoneVal]
    /\ call.fallback_data = [a |-> PyInt(9), b |-> PyInt(9), c |-> PyInt(9), d |-> PyInt(9)]
    /\ call.result = [ a |-> PyInt(5), b |-> PyInt(9), c |-> PyInt(9), d |-> PyInt(9),
                       primary_source |-> PyStr("unknown"),
                       fallback_source |-> PyStr("unknown"),
                       merged |-> PyBool(TRUE) ]

\* the payload carries the three provenance keys, merged being true
Stamped(r) ==
    /\ r # PyNone
    /\ ProvenanceKeys \subseteq DOMAIN r
    /\ r["merged"] = PyBool(TRUE)

\* C16 as stated: every payload merge returns carries primary_source,
\* fallback_source and merged = true, for every combination of present,
\* absent and errored inputs.
MergeAlwaysStamps ==
    (call.fn = "merge_data_sources" /\ call.done) => Stamped(call.result)

\* C16, amended: merge stamps primary_source, fallback_source and
\* merged = true on what it returns when both inputs are present and
\* error-free; when primary is absent or errored it returns fallback as it
\* is, and otherwise when fallback is absent or errored it returns primary as
\* it is, without any marker added.
MergeStampsMergedOnly ==
    (call.fn = "merge_data_sources" /\ call.done) =>
        LET p == call.primary_data
            f == call.fallback_data
            r == call.result
        IN  IF ~PresentErrorFree(p) THEN r = f
            ELSE IF ~PresentErrorFree(f) THEN r = p
            ELSE /\ Stamped(r)
                 /\ r["primary_source"] = (IF "source" \in DOMAIN p THEN p["source"]
                                           ELSE PyStr("unknown"))
                 /\ r["fallback_source"] = (IF "source" \in DOMAIN f THEN f["source"]
                                            ELSE PyStr("unknown"))

MergeStampsMergedOnlyWitness ==
    /\ call.fn = "merge_data_sources" /\ call.done
    /\ PresentErrorFree(call.primary_data)
    /\ PresentErrorFree(call.fallback_data)
    /\ call.result["primary_source"] = PyStr("nse")
    /\ call.result["fallback_source"] = PyStr("yahoo_finance")
    /\ call.result["merged"] = PyBool(TRUE)

----------------------------------------------------------------------------
(* C17: vendor errors never cross the adapter boundary *)

HasError(p) == "error" \in DOMAIN p

TakesSymbol(fn) == fn \in {"get_real_time_price", "get_historical_data"}

\* the field that carries the live data of the operation
LiveField(fn) ==
    CASE fn = "get_real_time_price" -> "price"
      [] fn = "get_historical_data" -> "data"
      [] fn = "get_market_indices" -> "indices"

\* the vendor request that decides the call failed
VendorFailed(c) ==
    IF c.adapter = "yahoo"
    THEN c.response # "ok"
    ELSE IF c.fn = "get_real_time_price"
    THEN IF c.response \in {"non_200", "error_body"} /\ Upper(c.symbol) \in nse_indices
         THEN c.index # "ok"
         ELSE c.response # "ok"
    ELSE c.response \in {"network_failure", "non_200", "malformed", "unparsable"}

AdapterReturned == call.fn \in AdapterOps /\ call.done

\* C17: whenever the vendor request of get_real_time_price,
\* get_historical_data or get_market_indices fails, the adapter returns a
\* payload with the error marker and, for the operations that take a symbol,
\* the symbol it was given; otherwise it returns a payload with the live data
\* field of the operation.
VendorErrorsBecomePayloads ==
    AdapterReturned =>
        LET p == call.result.payload
        IN  IF VendorFailed(call)
            THEN /\ HasError(p)
                 /\ TakesSymbol(call.fn) =>
                        "symbol" \in DOMAIN p /\ p["symbol"] = PyStr(call.symbol)
            ELSE ~HasError(p) /\ LiveField(call.fn) \in DOMAIN p

----------------------------------------------------------------------------
(* C18: an invalid period or interval costs no network call *)

InvalidRange(c) == ~validate_period(c.period) \/ ~validate_interval(c.interval)

\* C18: get_historical_data of either adapter, called with a period or an
\* interval outside the allow-list, returns an error payload and has made no
\* network step: no session, no cookie request, no data request.
InvalidRangeMakesNoNetworkCall ==
    (AdapterReturned /\ call.fn = "get_historical_data" /\ InvalidRange(call)) =>
        /\ HasError(call.result.payload)
        /\ call.result.network = <<>>

----------------------------------------------------------------------------
(* C19: symbol idempotence *)

SymbolNormalized == call.fn = "normalize_symbol" /\ call.done

\* C19: for each of the three rules and every symbol, normalizing the
\* normalized symbol returns it unchanged.
SymbolIdempotence ==
    SymbolNormalized => call.result.twice = call.result.once

\* the two suffix-adding rules on their own
SuffixAddingRulesIdempotent ==
    (SymbolNormalized /\ call.rule \in {"yahoo", "base"}) =>
        call.result.twice = call.result.once

----------------------------------------------------------------------------
(* C20: the coercion rule of normalize_price *)

PriceNormalized == call.fn = "normalize_price_data" /\ call.done

RequiredNumeric == {"price", "change", "change_percent", "open", "high", "low", "volume"}
OptionalNumeric == {"previous_close", "market_cap", "pe_ratio"}

\* float(value) succeeds
Numeric(value) ==
    \/ value.t \in {"int", "float", "bool"}
    \/ value.t = "str" /\ value.v \in NumericStrings

RequiredCoerced(raw, result) ==
    \A k \in RequiredNumeric :
        (k \notin DOMAIN raw \/ ~Numeric(raw[k])) => result[k].v = 0

OptionalPreserved(raw, result) ==
    \A k \in OptionalNumeric :
        (k \notin DOMAIN raw \/ raw[k] = PyNoneVal) => result[k] = PyNoneVal

\* C20: normalize_price returns none for a raw payload with the error
\* marker; otherwise a required numeric field that is absent or not numeric
\* in raw is 0 in the result, and an optional field that is absent or none in
\* raw is none in the result.
PriceCoercionRule ==
    PriceNormalized =>
        IF "error" \in DOMAIN call.raw
        THEN call.result = PyNone
        ELSE /\ call.result # PyNone
             /\ RequiredCoerced(call.raw, call.result)
             /\ OptionalPreserved(call.raw, call.result)

\* the rule without its clause on the optional fields
PriceCoercionRequiredOnly ==
    PriceNormalized =>
        IF "error" \in DOMAIN call.raw
        THEN call.result = PyNone
        ELSE call.result # PyNone /\ RequiredCoerced(call.raw, call.result)

----------------------------------------------------------------------------
(* C21: the numeric fields of a NormalizedPrice *)

NumericFields == RequiredNumeric \cup OptionalNumeric

ConcreteNumber(value) == value.t \in {"int", "float"}

\* C21: every NormalizedPrice that normalize_price produces has a number
\* under each numeric field, never none and never a missing field; the
\* number is 0 where the raw value was missing, none, not numeric or of the
\* wrong type.
NumericFieldsConcrete ==
    (PriceNormalized /\ call.result # PyNone) =>
        \A k \in NumericFields :
            /\ k \in DOMAIN call.result
            /\ ConcreteNumber(call.result[k])
            /\ (k \notin DOMAIN call.raw \/ ~Numeric(call.raw[k])) => call.result[k].v = 0

\* a price that is a list, a volume that is not numeric, no previous_close
NumericFieldsConcreteWitness ==
    /\ PriceNormalized
    /\ call.result # PyNone
    /\ "price" \in DOMAIN call.raw /\ call.raw["price"] = PyList(<<>>)
    /\ "volume" \in DOMAIN call.raw /\ call.raw["volume"] = PyStr("n/a")
    /\ "previous_close" \notin DOMAIN call.raw
    /\ "pe_ratio" \in DOMAIN call.raw /\ call.raw["pe_ratio"] = PyNoneVal

----------------------------------------------------------------------------
(* C22: one malformed point never drops the series *)

HistoryNormalized == call.fn = "normalize_historical_data" /\ call.done

\* C22: normalize_historical returns a NormalizedHistoricalData, never none,
\* for every raw payload without the error marker, whatever its points are:
\* records with fields missing, with values that do not convert, or elements
\* that are not records.
MalformedPointKeepsSeries ==
    (HistoryNormalized /\ "error" \notin DOMAIN call.raw) => call.result # PyNone

\* the same for series whose elements are all records
MalformedRecordKeepsSeries ==
    ( /\ HistoryNormalized
      /\ "error" \notin DOMAIN call.raw
      /\ \A i \in DOMAIN call.raw["data"].v : IsDict(call.raw["data"].v[i]) )
    => /\ call.result # PyNone
       /\ Len(call.result.data) = Len(call.raw["data"].v)

----------------------------------------------------------------------------
(* C23: the quality score *)

QualityScored == call.fn = "validate_data_quality" /\ call.done

\* the score the rule gives a price record
PriceScore(data) ==
    100 - (IF data.price.v <= 0 THEN 30 ELSE 0)
        - (IF data.volume.v <= 0 THEN 10 ELSE 0)
        - (IF data.timestamp \in {PyNoneVal, PyStr(<<>>)} THEN 20 ELSE 0)
        - (IF data.change_percent.v > 20 \/ data.change_percent.v < 0 - 20 THEN 5 ELSE 0)

\* the score the rule gives a series, from its points
SeriesScore(data) ==
    LET points == Len(data.data)
        stamped == Cardinality({i \in 1..points : data.data[i].timestamp # PyNoneVal})
    IN  IF points = 0 THEN 0
        ELSE 100 - (IF points < 10 THEN 20 ELSE 0)
                 - (IF 10 * stamped < 9 * points THEN 15 ELSE 0)

\* C23: the score of a price record is 100 less 30 for price <= 0, 10 for
\* volume <= 0, 20 for a missing timestamp and 5 for |change_percent| > 20;
\* the score of a series is 0 with no points, and otherwise 100 less 20 for
\* fewer than 10 points and 15 for fewer than 90% timestamped points; the
\* score lies in 0..100 and is_valid holds exactly when it is at least 50.
QualityScoreRule ==
    QualityScored =>
        /\ call.result.quality_score =
               IF IsNormalizedPrice(call.data) THEN PriceScore(call.data)
               ELSE SeriesScore(call.data)
        /\ call.result.quality_score \in 0..100
        /\ call.result.is_valid <=> call.result.quality_score >= 50

\* price = 0 and volume = 0 score 60 and are valid
QualityScoreRuleWitness ==
    /\ QualityScored
    /\ IsNormalizedPrice(call.data)
    /\ call.data.price.v = 0 /\ call.data.volume.v = 0
    /\ call.result.quality_score = 60
    /\ call.result.is_valid

\* an empty series scores 0 and is not valid
EmptySeriesScored ==
    /\ QualityScored
    /\ IsNormalizedHistoricalData(call.data)
    /\ Len(call.data.data) = 0
    /\ call.result.quality_score = 0
    /\ ~call.result.is_valid

----------------------------------------------------------------------------
(* C24: the market status over the week *)

StatusGiven == call.fn = "get_market_status" /\ call.done

\* Monday to Friday, 09:15:00 to 15:30:00
InWindow(t) ==
    /\ t.weekday \in 0..4
    /\ SecondOfDay(t) >= 33300
    /\ SecondOfDay(t) <= 55800

\* the days from t to the next trading day on which the market opens
DaysToNextOpen(t) ==
    IF t.weekday \in 0..4 /\ SecondOfDay(t) < 33300 THEN 0
    ELSE IF t.weekday \in 0..3 THEN 1
    ELSE 7 - t.weekday

\* C24: at every instant of the week is_open is true exactly inside the
\* Monday-Friday 09:15-15:30 window; when open the next event is market_close
\* at 15:30 the same day, when closed it is market_open at 09:15 of the next
\* Monday-Friday day.
MarketStatusHonorsWindow ==
    StatusGiven =>
        LET t == call.clock
            r == call.result
        IN  /\ r.is_open <=> InWindow(t)
            /\ InWindow(t) =>
                   /\ r.next_event = "market_close"
                   /\ r.next_event_time = DayAt(t, 0, 15, 30)
            /\ ~InWindow(t) =>
                   /\ r.next_event = "market_open"
                   /\ r.next_event_time = DayAt(t, DaysToNextOpen(t), 9, 15)

\* the claim on Monday to Thursday, and on Friday up to the close
MarketStatusWeekdays ==
    (StatusGiven /\ (call.clock.weekday \in 0..3
                        \/ (call.clock.weekday = 4 /\ SecondOfDay(call.clock) <= 55800))) =>
        LET t == call.clock
            r == call.result
        IN  /\ r.is_open <=> InWindow(t)
            /\ InWindow(t) =>
                   /\ r.next_event = "market_close"
                   /\ r.next_event_time = DayAt(t, 0, 15, 30)
            /\ ~InWindow(t) =>
                   /\ r.next_event = "market_open"
                   /\ r.next_event_time = DayAt(t, DaysToNextOpen(t), 9, 15)

----------------------------------------------------------------------------
(* C25: an entry is created only on a successful fetch and normalize *)

\* this step is the return of request i with None
ReturnsNone(i) ==
    /\ i \in DOMAIN req /\ i \in DOMAIN req'
    /\ req[i].pc = "awaiting"
    /\ req'[i].pc = "done"
    /\ req'[i].result = PyNone

\* this step is the entry of a request that is answered None from the cache
NoneFromCache ==
    /\ req' # req
    /\ Len(req') = 1
    /\ req'[1].pc = "done"
    /\ req'[1].cache_get = "hit"
    /\ req'[1].result = PyNone

\* C25: a request that returns None to its caller has added no entry to
\* either tier, and no request is answered None out of a cached entry.
EntryOnlyOnSuccess ==
    [][ /\ \A i \in DOMAIN req :
              ReturnsNone(i) => (memory_cache' = memory_cache /\ disk' = disk)
        /\ ~NoneFromCache
      ]_vars

----------------------------------------------------------------------------
(* C26: promotion on a disk hit *)

\* the get found no valid entry in memory and a valid one on disk
DiskHit ==
    /\ last.op = "get"
    /\ ~Fresh(last.preMem, last.cache_type, last.at)
    /\ Fresh(DocOf(last.preDisk), last.cache_type, last.at)

\* C26: a get that finds no entry, or an expired one, in memory and a valid
\* entry on disk returns the payload of that entry and leaves the memory tier
\* holding the same entry with the cached_at the set gave it; the file is
\* unchanged.
PromotionKeepsCachedAt ==
    DiskHit =>
        /\ last.ret = DocOf(last.preDisk).data
        /\ MemEntry(last.key) = DocOf(last.preDisk)
        /\ MemEntry(last.key).cached_at = DocOf(last.preDisk).cached_at
        /\ DiskFile(last.key) = last.preDisk

\* a disk hit at an instant later than the set: the entry was written at an
\* earlier instant by a manager that is gone
PromotionKeepsCachedAtWitness ==
    /\ DiskHit
    /\ last.preMem = Absent
    /\ last.at > DocOf(last.preDisk).cached_at
    /\ MemEntry(last.key) # Absent
    /\ MemEntry(last.key).cached_at < last.at

----------------------------------------------------------------------------
(* C27: cookie priming precedes the data requests *)

IsDataRequest(r) == r.url # "nseindia.com"

\* C27: every data request is sent on a session whose cookie request has
\* ended, with cookies or with a failure, also when calls start while the
\* cookie request of a new session is in flight; a failed cookie request is
\* logged and the data request is sent all the same.
PrimingPrecedesData ==
    /\ \A k \in DOMAIN nse.sent :
          IsDataRequest(nse.sent[k]) => nse.sent[k].priming \in {"done", "failed"}
    /\ \A i \in DOMAIN nse.tasks :
          nse.tasks[i].pc \in {"data", "done"} =>
              \E k \in DOMAIN nse.sent :
                  nse.sent[k].task = i /\ IsDataRequest(nse.sent[k])
    /\ nse.priming = "failed" => nse.warnings > 0

\* the same for the call that created the session
PrimingPrecedesOwnData ==
    \A k \in DOMAIN nse.sent :
        ( /\ IsDataRequest(nse.sent[k])
          /\ \E j \in 1..(k - 1) :
                nse.sent[j].task = nse.sent[k].task /\ ~IsDataRequest(nse.sent[j]) )
        => nse.sent[k].priming \in {"done", "failed"}

----------------------------------------------------------------------------
(* C28: the memory tier is a subset of the disk tier *)

\* C28: when no file write fails and nothing else touches the files, after
\* every operation each key of the memory tier has a file that holds the
\* identical entry.
MemorySubsetOfDisk ==
    \A k \in DOMAIN memory_cache :
        /\ k \in DOMAIN disk
        /\ Parses(disk[k])
        /\ disk[k].doc = memory_cache[k]

\* a sweep has removed an expired entry and a younger one remains in both tiers
MemorySubsetOfDiskWitness ==
    /\ last.op = "cleanup_expired"
    /\ last.count > 0
    /\ DOMAIN memory_cache # {}
    /\ \A k \in DOMAIN memory_cache : k \in DOMAIN disk /\ disk[k].doc = memory_cache[k]

----------------------------------------------------------------------------
(* C29: cache bypass *)

\* request i was made with use_cache = false, or on an API constructed with
\* caching disabled
Bypasses(rq) == ~rq.use_cache \/ ~enable_cache

\* this step is taken by request i: its entry or the return of an adapter call
StepOf(i) ==
    /\ i \in DOMAIN req'
    /\ (i \notin DOMAIN req \/ req'[i] # req[i])

\* C29: a request that bypasses the cache neither reads nor writes it: each
\* of its steps leaves both tiers unchanged, it never returns out of the
\* cache, and it calls the sources in the priority order of its category.
CacheBypass ==
    [][ \A i \in DOMAIN req' :
            (StepOf(i) /\ Bypasses(req'[i])) =>
                /\ memory_cache' = memory_cache
                /\ disk' = disk
                /\ req'[i].cache_get = "skipped"
                /\ req'[i].cache_set = "skipped"
                /\ Len(req'[i].called) >= 1
                /\ req'[i].called =
                       SubSeq(ClaimPriority(req'[i].op), 1, Len(req'[i].called))
      ]_vars

\* a request made with use_cache = false while a valid entry of its key is
\* cached has asked both sources and returned the data of the second
CacheBypassWitness ==
    \E i \in DOMAIN req :
        LET rq == req[i]
            ct == CacheTypeOf(rq.op, rq.kwargs)
            key == _get_cache_key(ct, rq.symbol, rq.kwargs)
        IN  /\ rq.pc = "done"
            /\ ~rq.use_cache
            /\ enable_cache
            /\ Fresh(MemEntry(key), ct, now)
            /\ rq.cache_get = "skipped"
            /\ rq.cache_set = "skipped"
            /\ rq.called = ClaimPriority(rq.op)
            /\ rq.result # PyNone

----------------------------------------------------------------------------
(* C30: the count cleanup_expired returns *)

\* this step is a call of cleanup_expired
CleanupStep == last'.op = "cleanup_expired" /\ now' = now

====
